---- MODULE Spec2Model ----
(***************************************************************************)
(* Hierarchical weighted aggregation: the Dataset / Category / Mode        *)
(* entities (webapp/jsonEditor/models.py), their file-backed managers      *)
(* (webapp/jsonEditor/managers.py), the grade check of                     *)
(* webapp/pipeline/json_maker.py and the generated dataset scorer of       *)
(* webapp/jsonEditor/runJsonEditor.py.                                     *)
(***************************************************************************)
EXTENDS Integers, Sequences, FiniteSets, TLC

(***************************************************************************)
(* Python floats.  Every weight, sum and score of the program is a Python  *)
(* float: each arithmetic operation returns the representable number       *)
(* nearest to the exact result (ties to even).  The model keeps that rule  *)
(* and shortens the significand: a number is m * 10^e with at most Digits  *)
(* significant digits, kept in canonical form (m has no trailing zero,     *)
(* zero is [m |-> 0, e |-> 0]) so that equal numbers are equal records.    *)
(***************************************************************************)
Digits == 3

RECURSIVE Pow10(_)
Pow10(n) == IF n <= 0 THEN 1 ELSE 10 * Pow10(n - 1)

AbsInt(n) == IF n < 0 THEN -n ELSE n

RECURSIVE NDigits(_)
NDigits(n) == IF n = 0 THEN 0 ELSE 1 + NDigits(n \div 10)

\* n / d (d > 0) rounded to the nearest integer, ties to the even one.
RoundHalfEven(n, d) ==
    LET q == n \div d
        r == n % d
    IN  IF 2 * r < d THEN q
        ELSE IF 2 * r > d THEN q + 1
        ELSE IF q % 2 = 0 THEN q ELSE q + 1

RECURSIVE Canon(_, _)
Canon(m, e) ==
    IF m = 0 THEN [m |-> 0, e |-> 0]
    ELSE IF m % 10 = 0 THEN Canon(m \div 10, e + 1)
    ELSE [m |-> m, e |-> e]

\* The float nearest to (n / d) * 10^e, for d > 0.
RoundDec(n, d, e) ==
    IF n = 0 THEN [m |-> 0, e |-> 0]
    ELSE
    LET a   == AbsInt(n)
        s   == Digits + NDigits(d) - NDigits(a)
        num == IF s >= 0 THEN a * Pow10(s) ELSE a
        den == IF s >= 0 THEN d ELSE d * Pow10(-s)
        big == num >= den * Pow10(Digits)
        mag == RoundHalfEven(num, IF big THEN den * 10 ELSE den)
        ex  == IF big THEN e - s + 1 ELSE e - s
    IN  Canon(IF n < 0 THEN -mag ELSE mag, ex)

Zero == [m |-> 0, e |-> 0]
One == [m |-> 1, e |-> 0]

\* The float of an integer literal.
FInt(n) == RoundDec(n, 1, 0)

\* The float of a decimal literal m * 10^e, such as 0.01 = FLit(1, -2).
FLit(m, e) == RoundDec(m, 1, e)

\* Position of the leading digit: |x| < 10^Mag(x).
Mag(x) == x.e + NDigits(AbsInt(x.m))

FNeg(x) == [m |-> -x.m, e |-> x.e]

FAbs(x) == [m |-> AbsInt(x.m), e |-> x.e]

FAdd(x, y) ==
    IF x.m = 0 THEN y
    ELSE IF y.m = 0 THEN x
    ELSE IF Mag(x) - Mag(y) > Digits + 1 THEN x
    ELSE IF Mag(y) - Mag(x) > Digits + 1 THEN y
    ELSE LET lo == IF x.e < y.e THEN x.e ELSE y.e
         IN  RoundDec(x.m * Pow10(x.e - lo) + y.m * Pow10(y.e - lo), 1, lo)

FSub(x, y) == FAdd(x, FNeg(y))

FMul(x, y) == RoundDec(x.m * y.m, 1, x.e + y.e)

\* x / y for y # 0 (Python raises ZeroDivisionError otherwise).
FDiv(x, y) ==
    RoundDec(IF y.m < 0 THEN -x.m ELSE x.m, AbsInt(y.m), x.e - y.e)

\* Comparisons are exact: rounding never changes the sign of a difference.
FLess(x, y) == FSub(x, y).m < 0

FLeq(x, y) == FSub(x, y).m <= 0


(***************************************************************************)
(* Python containers.  A list is a sequence.  A dict is a sequence of      *)
(* [k, v] entries with distinct keys, in insertion order: sum() adds the   *)
(* values in that order, and float addition depends on it.                 *)
(***************************************************************************)
InList(x, l) == \E i \in DOMAIN l : l[i] = x

\* list.remove(x) for x in the list: the first occurrence goes.
ListRemove(l, x) ==
    LET i == CHOOSE j \in DOMAIN l : l[j] = x /\ \A h \in 1..(j - 1) : l[h] # x
    IN  SubSeq(l, 1, i - 1) \o SubSeq(l, i + 1, Len(l))

DictKeys(d) == {d[i].k : i \in DOMAIN d}

DictHas(d, k) == k \in DictKeys(d)

DictGet(d, k) == d[CHOOSE i \in DOMAIN d : d[i].k = k].v

\* d[k] = v: an existing key keeps its place, a new key goes last.
DictSet(d, k, v) ==
    IF DictHas(d, k)
    THEN [i \in DOMAIN d |-> IF d[i].k = k THEN [k |-> k, v |-> v] ELSE d[i]]
    ELSE Append(d, [k |-> k, v |-> v])

\* del d[k]
DictDel(d, k) == SelectSeq(d, LAMBDA p : p.k # k)

\* sum(d.values()): from the int 0, left to right, rounding after each add.
RECURSIVE SumValues(_)
SumValues(d) ==
    IF d = <<>> THEN Zero
    ELSE FAdd(SumValues(SubSeq(d, 1, Len(d) - 1)), d[Len(d)].v)

\* Python's None, as a value of a list or of a dict (a JSON null).
None == [t |-> "none", n |-> Zero, s |-> ""]

\* sum(d.values()) raises TypeError when a value is None: neither the int 0
\* nor a float can be added to None.
SumRaises(d) == \E i \in DOMAIN d : d[i].v = None

\* str.strip() on the names the model draws: whitespace only strips to "".
Strip(s) == IF s \in {"", " ", "  "} THEN "" ELSE s

(***************************************************************************)
(* Validation errors.  validate() returns a list of messages; a message is *)
(* kept as the rule it reports, the id it quotes and the sum it prints.    *)
(***************************************************************************)
NoId == ""

Err(rule, id, sum) == [rule |-> rule, id |-> id, sum |-> sum]

\* f"{total_weight:.3f}": the sum printed with three decimals.
Fmt3(x) ==
    IF x.e >= -3 THEN x
    ELSE Canon(RoundHalfEven(x.m, Pow10(-3 - x.e)), -3)

\* The tolerance literal 0.01 of the validate() methods.
Tolerance == FLit(1, -2)

\* abs(total_weight - 1.0) > 0.01
WeightSumOff(total) == FLess(Tolerance, FAbs(FSub(total, One)))

\* The "is missing weight configuration" errors, one per listed member.
MissingWeightErrors(members, weights) ==
    LET miss == SelectSeq(members, LAMBDA x : ~DictHas(weights, x))
    IN  [i \in DOMAIN miss |-> Err("missing_weight", miss[i], Zero)]

WeightSumErrors(weights) ==
    LET total == SumValues(weights)
    IN  IF WeightSumOff(total)
        THEN <<Err("weight_sum", NoId, Fmt3(total))>>
        ELSE <<>>

Dataset_validate(d) ==
    (IF Strip(d.name) = "" THEN <<Err("name", NoId, Zero)>> ELSE <<>>)
    \o (IF d.selected_fields = <<>> THEN <<Err("empty", NoId, Zero)>> ELSE <<>>)
    \o MissingWeightErrors(d.selected_fields, d.field_weights)
    \o WeightSumErrors(d.field_weights)

\* An add that appends the id whether or not it is listed (not what
\* add_dataset does).
add_dataset_appending(c, dataset_id, weight) ==
    [c EXCEPT !.datasets = Append(@, dataset_id),
              !.dataset_weights = DictSet(@, dataset_id, weight)]

Category_add_dataset(c, dataset_id, weight) ==
    [c EXCEPT !.datasets = IF InList(dataset_id, @) THEN @ ELSE Append(@, dataset_id),
              !.dataset_weights = DictSet(@, dataset_id, weight)]

\* A removal that rescales what is left (not what remove_dataset does).
remove_dataset_rescaling(c, dataset_id) ==
    [c EXCEPT !.datasets = SelectSeq(@, LAMBDA x : x # dataset_id),
              !.dataset_weights =
                  LET rest  == SelectSeq(@, LAMBDA p : p.k # dataset_id)
                      total == SumValues(rest)
                  IN  [i \in DOMAIN rest |->
                          [k |-> rest[i].k,
                           v |-> IF total = Zero THEN rest[i].v ELSE FDiv(rest[i].v, total)]]]

Category_remove_dataset(c, dataset_id) ==
    [c EXCEPT !.datasets = IF InList(dataset_id, @) THEN ListRemove(@, dataset_id) ELSE @,
              !.dataset_weights = IF DictHas(@, dataset_id) THEN DictDel(@, dataset_id) ELSE @]

\* The loop "for k in weights: weights[k] /= total_weight" under "if total_weight > 0".
DivideAll(weights) ==
    LET total == SumValues(weights)
    IN  IF FLess(Zero, total)
        THEN [i \in DOMAIN weights |->
                 [k |-> weights[i].k, v |-> FDiv(weights[i].v, total)]]
        ELSE weights

Category_normalize_weights(c) ==
    [c EXCEPT !.dataset_weights = DivideAll(@)]

Category_validate(c) ==
    (IF Strip(c.name) = "" THEN <<Err("name", NoId, Zero)>> ELSE <<>>)
    \o (IF c.datasets = <<>> THEN <<Err("empty", NoId, Zero)>> ELSE <<>>)
    \o MissingWeightErrors(c.datasets, c.dataset_weights)
    \o WeightSumErrors(c.dataset_weights)

Mode_add_category(m, category_id, weight) ==
    [m EXCEPT !.categories = IF InList(category_id, @) THEN @ ELSE Append(@, category_id),
              !.category_weights = DictSet(@, category_id, weight)]

Mode_remove_category(m, category_id) ==
    [m EXCEPT !.categories = IF InList(category_id, @) THEN ListRemove(@, category_id) ELSE @,
              !.category_weights = IF DictHas(@, category_id) THEN DictDel(@, category_id) ELSE @]

Mode_normalize_weights(m) ==
    [m EXCEPT !.category_weights = DivideAll(@)]

\* A validation that stops at the first violated rule (not what validate does).
validate_first_error_only(m) ==
    IF Strip(m.name) = "" THEN <<Err("name", NoId, Zero)>>
    ELSE IF Strip(m.use_case) = "" THEN <<Err("use_case", NoId, Zero)>>
    ELSE IF m.categories = <<>> THEN <<Err("empty", NoId, Zero)>>
    ELSE IF MissingWeightErrors(m.categories, m.category_weights) # <<>>
    THEN <<MissingWeightErrors(m.categories, m.category_weights)[1]>>
    ELSE WeightSumErrors(m.category_weights)

Mode_validate(m) ==
    (IF Strip(m.name) = "" THEN <<Err("name", NoId, Zero)>> ELSE <<>>)
    \o (IF Strip(m.use_case) = "" THEN <<Err("use_case", NoId, Zero)>> ELSE <<>>)
    \o (IF m.categories = <<>> THEN <<Err("empty", NoId, Zero)>> ELSE <<>>)
    \o MissingWeightErrors(m.categories, m.category_weights)
    \o WeightSumErrors(m.category_weights)

(***************************************************************************)
(* webapp/pipeline/json_maker.py: the grade check of the JSON builder.     *)
(***************************************************************************)
\* The tolerance literal 1e-6 of normalize_grades.
GradeTolerance == FLit(1, -6)

\* (v if v is not None else 0) for v in grades.values()
NoneAsZero(grades) ==
    [i \in DOMAIN grades |->
        [k |-> grades[i].k, v |-> IF grades[i].v = None THEN Zero ELSE grades[i].v]]

\* abs(total - 1.0) < 1e-6
normalize_grades(grades) ==
    FLess(FAbs(FSub(SumValues(NoneAsZero(grades)), One)), GradeTolerance)

\* dataset_grade = sum(summary.values()) / len(summary), 0 for an empty summary.
calculate_dataset_grade(summary) ==
    IF summary = <<>> THEN Zero
    ELSE FDiv(SumValues(summary), FInt(Len(summary)))

\* create_dataset_json called with no qualitative, quantitative or removed field:
\* raise ValueError("Field grades are not normalized; they must sum to 1."), or
\* return the dataset object; calculate_dataset_grade sums the grades as they
\* are and raises TypeError on a None grade.
create_dataset_json(summary) ==
    IF ~normalize_grades(summary)
    THEN [exc |-> "ValueError", val |-> <<[rule |-> "not_normalized", id |-> "", sum |-> Zero]>>]
    ELSE IF SumRaises(summary)
    THEN [exc |-> "TypeError", val |-> <<>>]
    ELSE [exc |-> "",
          val |-> [summaryOfGrades |-> summary,
                   datasetGrade |-> calculate_dataset_grade(summary)]]

(***************************************************************************)
(* webapp/jsonEditor/managers.py.  Each manager keeps one JSON file; `fs`  *)
(* is the storage directory: fs.datasets, fs.categories and fs.modes are   *)
(* the objects under the "datasets", "categories" and "modes" keys of the  *)
(* three files, as functions from id to the stored entity (a missing file  *)
(* or key reads as the empty object).  Python's json writes and reads back *)
(* strings, lists, dicts and floats unchanged, so a stored entity is the   *)
(* entity that was passed in.  A call returns [fs, exc, val]: the storage  *)
(* after it, the exception it raised ("" for none) and what it returned or *)
(* what the exception names.                                               *)
(***************************************************************************)
Outcome(fs, exc, val) == [fs |-> fs, exc |-> exc, val |-> val]

\* d with d[id] = x
Put(d, id, x) == [k \in DOMAIN d \cup {id} |-> IF k = id THEN x ELSE d[k]]

\* d after del d[id]
Drop(d, id) == [k \in DOMAIN d \ {id} |-> d[k]]

\* A create that keeps the record already stored under the id (not what
\* create_dataset does).
create_dataset_keeping_existing(fs, id, dataset) ==
    IF id \in DOMAIN fs.datasets THEN Outcome(fs, "", id)
    ELSE Outcome([fs EXCEPT !.datasets = Put(@, id, dataset)], "", id)

DatasetManager_create_dataset(fs, id, dataset) ==
    Outcome([fs EXCEPT !.datasets = Put(@, id, dataset)], "", id)

\* Dataset.from_dict on a stored dict: the two enum fields are converted
\* (to_dict stored them as valid values) and cls(**data) takes every other
\* field as it is stored; nothing is validated.
Dataset_from_dict(data) ==
    [kind |-> "dataset", name |-> data.name,
     selected_fields |-> data.selected_fields, field_weights |-> data.field_weights]

\* get_dataset: the Dataset built from the stored dict, or None.
DatasetManager_get_dataset(fs, id) ==
    IF id \in DOMAIN fs.datasets
    THEN Outcome(fs, "", Dataset_from_dict(fs.datasets[id]))
    ELSE Outcome(fs, "", None)

\* list_datasets: the Datasets built from all stored dicts, listed by id.
DatasetManager_list_datasets(fs, ids) ==
    LET stored == SelectSeq(ids, LAMBDA id : id \in DOMAIN fs.datasets)
    IN  Outcome(fs, "", [i \in DOMAIN stored |-> Dataset_from_dict(fs.datasets[stored[i]])])

\* "dataset.updated_at = datetime.utcnow()...": managers.py never imports
\* datetime, so the statement raises NameError before anything is stored.
DatasetManager_update_dataset(fs, id, dataset) ==
    IF id \in DOMAIN fs.datasets
    THEN Outcome(fs, "NameError", "datetime")
    ELSE Outcome(fs, "", FALSE)

\* A delete that also takes the id out of every stored category (not what
\* delete_dataset does).
delete_dataset_cascading(fs, id) ==
    IF id \in DOMAIN fs.datasets
    THEN Outcome([fs EXCEPT !.datasets = Drop(@, id),
                            !.categories =
                                [c \in DOMAIN @ |->
                                    [@[c] EXCEPT !.datasets = SelectSeq(@, LAMBDA x : x # id),
                                                 !.dataset_weights = DictDel(@, id)]]],
                 "", TRUE)
    ELSE Outcome(fs, "", FALSE)

DatasetManager_delete_dataset(fs, id) ==
    IF id \in DOMAIN fs.datasets
    THEN Outcome([fs EXCEPT !.datasets = Drop(@, id)], "", TRUE)
    ELSE Outcome(fs, "", FALSE)

\* validate_dataset_references: (valid_ids, invalid_ids), each in the order given.
DatasetManager_validate_dataset_references(fs, dataset_ids) ==
    [valid   |-> SelectSeq(dataset_ids, LAMBDA x : x \in DOMAIN fs.datasets),
     invalid |-> SelectSeq(dataset_ids, LAMBDA x : x \notin DOMAIN fs.datasets)]

\* A create that drops the unknown ids and saves the rest (not what
\* create_category does).
create_category_dropping_invalid(fs, id, category) ==
    LET refs == DatasetManager_validate_dataset_references(fs, category.datasets)
    IN  Outcome([fs EXCEPT !.categories =
                     Put(@, id, [category EXCEPT !.datasets = refs.valid])], "", id)

CategoryManager_create_category(fs, id, category) ==
    LET refs == DatasetManager_validate_dataset_references(fs, category.datasets)
    IN  IF refs.invalid # <<>>
        THEN Outcome(fs, "ValueError", refs.invalid)
        ELSE Outcome([fs EXCEPT !.categories = Put(@, id, category)], "", id)

CategoryManager_update_category(fs, id, category) ==
    LET refs == DatasetManager_validate_dataset_references(fs, category.datasets)
    IN  IF refs.invalid # <<>>
        THEN Outcome(fs, "ValueError", refs.invalid)
        ELSE IF id \in DOMAIN fs.categories
        THEN Outcome(fs, "NameError", "datetime")
        ELSE Outcome(fs, "", FALSE)

CategoryManager_delete_category(fs, id) ==
    IF id \in DOMAIN fs.categories
    THEN Outcome([fs EXCEPT !.categories = Drop(@, id)], "", TRUE)
    ELSE Outcome(fs, "", FALSE)

CategoryManager_validate_category_references(fs, category_ids) ==
    [valid   |-> SelectSeq(category_ids, LAMBDA x : x \in DOMAIN fs.categories),
     invalid |-> SelectSeq(category_ids, LAMBDA x : x \notin DOMAIN fs.categories)]

ModeManager_create_mode(fs, id, mode) ==
    LET refs == CategoryManager_validate_category_references(fs, mode.categories)
    IN  IF refs.invalid # <<>>
        THEN Outcome(fs, "ValueError", refs.invalid)
        ELSE Outcome([fs EXCEPT !.modes = Put(@, id, mode)], "", id)

\* An update that stores the mode under an id the store does not hold (not
\* what update_mode does).
update_mode_upserting(fs, id, mode) ==
    LET refs == CategoryManager_validate_category_references(fs, mode.categories)
    IN  IF refs.invalid # <<>>
        THEN Outcome(fs, "ValueError", refs.invalid)
        ELSE IF id \in DOMAIN fs.modes
        THEN Outcome(fs, "NameError", "datetime")
        ELSE Outcome([fs EXCEPT !.modes = Put(@, id, mode)], "", FALSE)

ModeManager_update_mode(fs, id, mode) ==
    LET refs == CategoryManager_validate_category_references(fs, mode.categories)
    IN  IF refs.invalid # <<>>
        THEN Outcome(fs, "ValueError", refs.invalid)
        ELSE IF id \in DOMAIN fs.modes
        THEN Outcome(fs, "NameError", "datetime")
        ELSE Outcome(fs, "", FALSE)

ModeManager_delete_mode(fs, id) ==
    IF id \in DOMAIN fs.modes
    THEN Outcome([fs EXCEPT !.modes = Drop(@, id)], "", TRUE)
    ELSE Outcome(fs, "", FALSE)

\* save_result: "result_id = f\"{result.mode_id}_{int(datetime.utcnow()...)}\""
\* raises NameError (managers.py never imports datetime) before the result is
\* put into the loaded data, so nothing is saved.
ProcessingResultManager_save_result(fs, result) ==
    Outcome(fs, "NameError", "datetime")

ProcessingResultManager_delete_result(fs, id) ==
    IF id \in DOMAIN fs.results
    THEN Outcome([fs EXCEPT !.results = Drop(@, id)], "", TRUE)
    ELSE Outcome(fs, "", FALSE)

\* The errors of one entity, as validate_hierarchy prefixes them with its id.
IssuesOf(id, errors) == {[id |-> id, error |-> errors[i]] : i \in DOMAIN errors}

\* HierarchyManager.validate_hierarchy: the five issue lists, each as a set.
HierarchyManager_validate_hierarchy(fs) ==
    LET used_dataset_ids ==
            UNION {{fs.categories[c].datasets[i] : i \in DOMAIN fs.categories[c].datasets} :
                      c \in DOMAIN fs.categories}
        used_category_ids ==
            UNION {{fs.modes[m].categories[i] : i \in DOMAIN fs.modes[m].categories} :
                      m \in DOMAIN fs.modes}
    IN  [datasets   |-> UNION {IssuesOf(d, Dataset_validate(fs.datasets[d])) :
                                  d \in DOMAIN fs.datasets},
         categories |-> UNION {IssuesOf(c, Category_validate(fs.categories[c])) :
                                  c \in DOMAIN fs.categories},
         modes      |-> UNION {IssuesOf(m, Mode_validate(fs.modes[m])) :
                                  m \in DOMAIN fs.modes},
         orphaned_datasets   |-> DOMAIN fs.datasets \ used_dataset_ids,
         orphaned_categories |-> DOMAIN fs.categories \ used_category_ids]

(***************************************************************************)
(* APIRegistry (runJsonEditor.py): the registry file holds the object      *)
(* "apis", from id to entry.  An entry is kept with its id, name, url,     *)
(* api_type and updated_at ("" while the entry has no such key);           *)
(* description and category are copied by the same expressions as name and *)
(* url.  api_data is a dict that may lack any key: a function on the keys  *)
(* it has.                                                                 *)
(***************************************************************************)
\* api_data.get(key, default)
ApiGet(api_data, key, default) ==
    IF key \in DOMAIN api_data THEN api_data[key] ELSE default

\* add_api; uuid is what uuid.uuid4() returns when it is called.
APIRegistry_add_api(registry, api_data, uuid) ==
    LET api_id == IF ApiGet(api_data, "id", "") # "" THEN api_data["id"] ELSE uuid
        api_entry == [id |-> api_id,
                      name |-> ApiGet(api_data, "name", "Unnamed API"),
                      url |-> ApiGet(api_data, "url", ""),
                      api_type |-> ApiGet(api_data, "api_type", "user_created"),
                      updated_at |-> ""]
    IN  Outcome([registry EXCEPT !.apis = Put(@, api_id, api_entry)], "", api_id)

APIRegistry_update_api(registry, api_id, api_data) ==
    IF api_id \notin DOMAIN registry.apis THEN Outcome(registry, "", FALSE)
    ELSE IF registry.apis[api_id].api_type = "built_in" THEN Outcome(registry, "", FALSE)
    ELSE Outcome([registry EXCEPT
                     !.apis[api_id].name = ApiGet(api_data, "name", @),
                     !.apis[api_id].url = ApiGet(api_data, "url", @),
                     !.apis[api_id].updated_at = "now"], "", TRUE)

\* A delete without the built-in check (not what delete_api does).
delete_api_unguarded(registry, api_id) ==
    IF api_id \notin DOMAIN registry.apis THEN Outcome(registry, "", FALSE)
    ELSE Outcome([registry EXCEPT !.apis = Drop(@, api_id)], "", TRUE)

APIRegistry_delete_api(registry, api_id) ==
    IF api_id \notin DOMAIN registry.apis THEN Outcome(registry, "", FALSE)
    ELSE IF registry.apis[api_id].api_type = "built_in" THEN Outcome(registry, "", FALSE)
    ELSE Outcome([registry EXCEPT !.apis = Drop(@, api_id)], "", TRUE)

(***************************************************************************)
(* The generated dataset scorer (runJsonEditor.py,                         *)
(* generate_dataset_python_code).  A frame has a set of columns and a      *)
(* sequence of rows; a row maps each column to a cell: a number, a string  *)
(* or None.  A pandas Series of floats is a sequence whose entries are     *)
(* floats or NaN; arithmetic on Series is element by element and NaN       *)
(* propagates.                                                             *)
(***************************************************************************)
Num(x) == [t |-> "num", n |-> x, s |-> ""]

Str(s) == [t |-> "str", n |-> Zero, s |-> s]

\* Not a number: a value apart from every canonical float.
NaN == [m |-> 0, e |-> 1]

Column(gdf, field) == [i \in DOMAIN gdf.rows |-> gdf.rows[i][field]]

\* pd.to_numeric(errors='coerce'): None and the strings that are not
\* numerals (all the strings the model draws) become NaN.
to_numeric(cells) == [i \in DOMAIN cells |-> IF cells[i].t = "num" THEN cells[i].n ELSE NaN]

\* Series.astype(str) on an object column of strings and None.
astype_str(cells) == [i \in DOMAIN cells |-> IF cells[i].t = "str" THEN cells[i].s ELSE "None"]

NotNa(values) == {values[i] : i \in DOMAIN values} \ {NaN}

\* Series.min() and Series.max() skip NaN.
SeriesMin(values) == CHOOSE x \in NotNa(values) : \A y \in NotNa(values) : FLeq(x, y)

SeriesMax(values) == CHOOSE x \in NotNa(values) : \A y \in NotNa(values) : FLeq(y, x)

SeriesAdd(a, b) ==
    [i \in DOMAIN a |-> IF a[i] = NaN \/ b[i] = NaN THEN NaN ELSE FAdd(a[i], b[i])]

\* Series * scalar
SeriesMul(a, w) == [i \in DOMAIN a |-> IF a[i] = NaN THEN NaN ELSE FMul(a[i], w)]

\* (values - values.min()) / (values.max() - values.min()), for max > min
min_max_normalized(values) ==
    LET lo == SeriesMin(values)
        hi == SeriesMax(values)
    IN  [i \in DOMAIN values |->
            IF values[i] = NaN THEN NaN
            ELSE FDiv(FSub(values[i], lo), FSub(hi, lo))]

\* A qualitative score that keeps the percentage as it is (not what
\* calculate_attribute_weighted_score does).
attribute_score_unscaled(gdf, field, field_attributes) ==
    LET attribute_weights == DictGet(field_attributes, field)
    IN  [i \in DOMAIN gdf.rows |->
            LET hits == {j \in DOMAIN attribute_weights :
                            attribute_weights[j].k = gdf.rows[i][field].s}
            IN  IF hits = {} THEN Zero
                ELSE attribute_weights[CHOOSE j \in hits : TRUE].v]

\* A qualitative score that gives the values without entry the full score
\* (not what calculate_attribute_weighted_score does).
attribute_score_default_one(gdf, field, field_attributes) ==
    LET attribute_weights == DictGet(field_attributes, field)
    IN  [i \in DOMAIN gdf.rows |->
            LET hits == {j \in DOMAIN attribute_weights :
                            attribute_weights[j].k = gdf.rows[i][field].s}
            IN  IF hits = {} THEN One
                ELSE FDiv(attribute_weights[CHOOSE j \in hits : TRUE].v, FInt(100))]

\* field_attributes maps a field to its attributeWeights dict (a missing
\* 'attributeWeights' key reads as the empty dict).  Each attribute in turn
\* overwrites the score of the rows whose text equals it.
calculate_attribute_weighted_score(gdf, field, field_attributes) ==
    LET attribute_weights == DictGet(field_attributes, field)
        text == astype_str(Column(gdf, field))
    IN  IF attribute_weights = <<>> THEN [i \in DOMAIN gdf.rows |-> Zero]
        ELSE [i \in DOMAIN gdf.rows |->
                LET hits == {j \in DOMAIN attribute_weights : attribute_weights[j].k = text[i]}
                IN  IF hits = {} THEN Zero
                    ELSE FDiv(attribute_weights[CHOOSE j \in hits : \A h \in hits : h <= j].v,
                              FInt(100))]

\* gdf = gdf[fields_to_keep]: the selected fields that are columns.
KeptColumns(gdf, cfg) == {f \in gdf.columns : InList(f, cfg.selected_fields)}

\* The loop without the test "values.max() > values.min()": a constant column
\* is divided by its zero range (not what process does).
RECURSIVE weighted_score_unguarded(_, _, _)
weighted_score_unguarded(gdf, cfg, n) ==
    IF n = 0 THEN [i \in DOMAIN gdf.rows |-> Zero]
    ELSE
    LET total  == weighted_score_unguarded(gdf, cfg, n - 1)
        field  == cfg.field_weights[n].k
        ftype  == IF DictHas(cfg.field_types, field)
                  THEN DictGet(cfg.field_types, field) ELSE "unknown"
        values == to_numeric(Column(gdf, field))
    IN  IF field \notin KeptColumns(gdf, cfg) THEN total
        ELSE IF ftype = "quantitative"
        THEN IF NotNa(values) = {} THEN total
             ELSE IF FLess(SeriesMin(values), SeriesMax(values))
             THEN SeriesAdd(total, SeriesMul(min_max_normalized(values), cfg.field_weights[n].v))
             ELSE [i \in DOMAIN gdf.rows |-> NaN]
        ELSE IF ftype = "qualitative" /\ DictHas(cfg.field_attributes, field)
        THEN SeriesAdd(total,
                       SeriesMul(calculate_attribute_weighted_score(gdf, field,
                                                                    cfg.field_attributes),
                                 cfg.field_weights[n].v))
        ELSE total

\* total_weighted_score after the first n entries of field_weights.
RECURSIVE WeightedScoreAfter(_, _, _)
WeightedScoreAfter(gdf, cfg, n) ==
    IF n = 0 THEN [i \in DOMAIN gdf.rows |-> Zero]
    ELSE
    LET total        == WeightedScoreAfter(gdf, cfg, n - 1)
        field        == cfg.field_weights[n].k
        field_weight == cfg.field_weights[n].v
        field_type   == IF DictHas(cfg.field_types, field)
                        THEN DictGet(cfg.field_types, field) ELSE "unknown"
        values       == to_numeric(Column(gdf, field))
    IN  IF field \notin KeptColumns(gdf, cfg) THEN total
        ELSE IF field_type = "quantitative"
        THEN IF NotNa(values) # {} /\ FLess(SeriesMin(values), SeriesMax(values))
             THEN SeriesAdd(total, SeriesMul(min_max_normalized(values), field_weight))
             ELSE total
        ELSE IF field_type = "qualitative" /\ DictHas(cfg.field_attributes, field)
        THEN SeriesAdd(total,
                       SeriesMul(calculate_attribute_weighted_score(gdf, field,
                                                                    cfg.field_attributes),
                                 field_weight))
        ELSE total

\* process(): the column weighted_score.
process(gdf, cfg) == WeightedScoreAfter(gdf, cfg, Len(cfg.field_weights))

\* The field_score series process() computes on its way, one per weighted
\* field that takes the qualitative branch, as a dict from the field.
AttributeScores(gdf, cfg) ==
    LET taken == SelectSeq(cfg.field_weights,
                           LAMBDA p : /\ p.k \in KeptColumns(gdf, cfg)
                                      /\ DictHas(cfg.field_types, p.k)
                                      /\ DictGet(cfg.field_types, p.k) = "qualitative"
                                      /\ DictHas(cfg.field_attributes, p.k))
    IN  [j \in DOMAIN taken |->
            [k |-> taken[j].k,
             v |-> calculate_attribute_weighted_score(gdf, taken[j].k, cfg.field_attributes)]]

(***************************************************************************)
(* The generated category and feature layer scorers (runJsonEditor.py,     *)
(* generate_category_python_code, generate_featurelayer_python_code).      *)
(* Both read the frames of their datasets, tag every row with its dataset  *)
(* (and category) and their weights, put all rows into one frame and score *)
(* that frame.  dataset_files is a dict from dataset id to the frame read  *)
(* from its file.                                                          *)
(***************************************************************************)
RECURSIVE Concat(_)
Concat(ls) == IF ls = <<>> THEN <<>> ELSE Concat(SubSeq(ls, 1, Len(ls) - 1)) \o ls[Len(ls)]

\* dict.get(key, 100) / 100
PercentOf(weights, key) ==
    FDiv(IF DictHas(weights, key) THEN DictGet(weights, key) ELSE FInt(100), FInt(100))

\* The rows of one dataset's frame with the tag columns added.
TaggedRows(cat_id, cat_weight, ds_id, ds_weight, gdf) ==
    [i \in DOMAIN gdf.rows |->
        [category_id |-> cat_id, category_weight |-> cat_weight,
         dataset_id |-> ds_id, dataset_weight |-> ds_weight,
         feature |-> i, cells |-> gdf.rows[i]]]

\* pd.concat of the tagged frames: all rows, and the kept columns of any of them.
Combined(tagged, frames, cfg) ==
    [columns |-> UNION {KeptColumns(frames[i], cfg) : i \in DOMAIN frames},
     rows    |-> [i \in DOMAIN tagged |-> tagged[i].cells]]

\* total_field_score after the first n entries of field_weights: the loop of
\* the dataset scorer with every term divided by 100.
RECURSIVE FieldScoreAfter(_, _, _)
FieldScoreAfter(gdf, cfg, n) ==
    IF n = 0 THEN [i \in DOMAIN gdf.rows |-> Zero]
    ELSE
    LET total        == FieldScoreAfter(gdf, cfg, n - 1)
        field        == cfg.field_weights[n].k
        field_weight == cfg.field_weights[n].v
        field_type   == IF DictHas(cfg.field_types, field)
                        THEN DictGet(cfg.field_types, field) ELSE "unknown"
        values       == to_numeric(Column(gdf, field))
        percent(a)   == [i \in DOMAIN a |-> IF a[i] = NaN THEN NaN ELSE FDiv(a[i], FInt(100))]
    IN  IF field \notin gdf.columns THEN total
        ELSE IF field_type = "quantitative"
        THEN IF NotNa(values) # {} /\ FLess(SeriesMin(values), SeriesMax(values))
             THEN SeriesAdd(total,
                            percent(SeriesMul(min_max_normalized(values), field_weight)))
             ELSE total
        ELSE IF field_type = "qualitative" /\ DictHas(cfg.field_attributes, field)
        THEN SeriesAdd(total,
                       percent(SeriesMul(calculate_attribute_weighted_score(
                                             gdf, field, cfg.field_attributes),
                                         field_weight)))
        ELSE total

\* Series * Series
SeriesTimes(a, b) ==
    [i \in DOMAIN a |-> IF a[i] = NaN \/ b[i] = NaN THEN NaN ELSE FMul(a[i], b[i])]

\* CategoryProcessor.process(): one output row per row of every dataset.
CategoryProcessor_process(dataset_files, cfg) ==
    LET tagged == Concat([d \in DOMAIN dataset_files |->
                             TaggedRows("", One, dataset_files[d].k,
                                        PercentOf(cfg.dataset_weights, dataset_files[d].k),
                                        dataset_files[d].v)])
        gdf    == Combined(tagged, [d \in DOMAIN dataset_files |-> dataset_files[d].v], cfg)
        field_score == FieldScoreAfter(gdf, cfg, Len(cfg.field_weights))
        final_score == SeriesTimes(field_score, [i \in DOMAIN tagged |-> tagged[i].dataset_weight])
    IN  [i \in DOMAIN tagged |->
            [dataset_id |-> tagged[i].dataset_id, feature |-> tagged[i].feature,
             field_score |-> field_score[i], final_score |-> final_score[i]]]

\* FeatureLayerProcessor.process(): categories is a dict from category id to
\* [datasets, weights].
FeatureLayerProcessor_process(categories, cfg) ==
    LET perCategory(c) ==
            Concat([d \in DOMAIN categories[c].v.datasets |->
                       TaggedRows(categories[c].k,
                                  PercentOf(cfg.category_weights, categories[c].k),
                                  categories[c].v.datasets[d].k,
                                  PercentOf(categories[c].v.weights,
                                            categories[c].v.datasets[d].k),
                                  categories[c].v.datasets[d].v)])
        tagged == Concat([c \in DOMAIN categories |-> perCategory(c)])
        frames == Concat([c \in DOMAIN categories |->
                             [d \in DOMAIN categories[c].v.datasets |->
                                 categories[c].v.datasets[d].v]])
        gdf    == Combined(tagged, frames, cfg)
        field_score   == FieldScoreAfter(gdf, cfg, Len(cfg.field_weights))
        dataset_score == SeriesTimes(field_score,
                                     [i \in DOMAIN tagged |-> tagged[i].dataset_weight])
        final_score   == SeriesTimes(dataset_score,
                                     [i \in DOMAIN tagged |-> tagged[i].category_weight])
    IN  [i \in DOMAIN tagged |->
            [category_id |-> tagged[i].category_id, dataset_id |-> tagged[i].dataset_id,
             feature |-> tagged[i].feature, field_score |-> field_score[i],
             dataset_score |-> dataset_score[i], final_score |-> final_score[i]]]

(***************************************************************************)
(* Field analysis (webapp/pipeline/quant_qual_counter.py, with the same    *)
(* two functions in webapp/jsonEditor/pipeline/quant_qual_counter.py, and  *)
(* GeoJSONProcessor._calculate_statistics of runJsonEditor.py).  A field's *)
(* values are the raw cells of the features: numbers, strings or None.     *)
(* The standard deviation entry of the statistics is left out: it needs a  *)
(* square root and nothing below reads it.                                 *)
(***************************************************************************)
\* The strings float() accepts, among those the model draws, with the float
\* it returns for each; float() raises ValueError on any other string and
\* TypeError on None.
Numerals ==
    <<[k |-> "1", v |-> FInt(1)], [k |-> "1.0", v |-> FInt(1)],
      [k |-> "2", v |-> FInt(2)], [k |-> "3", v |-> FInt(3)],
      [k |-> "nan", v |-> NaN]>>

FloatRaises(v) == v.t = "none" \/ (v.t = "str" /\ ~DictHas(Numerals, v.s))

float(v) == IF v.t = "num" THEN v.n ELSE DictGet(Numerals, v.s)

\* v not in (None, "")
NotBlank(v) == v # None /\ v # Str("")

\* len(set(xs)) for a list of floats: equal numbers are one element; every
\* float("nan") is a new object that equals nothing, so each is an element.
LenSetOfFloats(xs) ==
    Cardinality(NotNa(xs)) + Cardinality({i \in DOMAIN xs : xs[i] = NaN})

\* predict_field_type: [type, unique, total].  The list comprehension
\* raises on the first value float() rejects, and the except branch answers.
predict_field_type(values, threshold_unique) ==
    LET total == Len(values)
        attempted == SelectSeq(values, NotBlank)
        numeric_values == [i \in DOMAIN attempted |-> float(attempted[i])]
        ratio == IF total > 0
                 THEN FDiv(FInt(LenSetOfFloats(numeric_values)), FInt(total))
                 ELSE Zero
        by_raw == [type |-> "qualitative",
                   unique |-> Cardinality({values[i] : i \in DOMAIN values}),
                   total |-> total]
    IN  IF \E i \in DOMAIN attempted : FloatRaises(attempted[i]) THEN by_raw
        ELSE IF FLess(threshold_unique, ratio)
        THEN [type |-> "quantitative", unique |-> LenSetOfFloats(numeric_values),
              total |-> total]
        ELSE by_raw

\* sum(xs): left to right, rounding after each add.
RECURSIVE ListSum(_)
ListSum(xs) ==
    IF xs = <<>> THEN Zero
    ELSE FAdd(ListSum(SubSeq(xs, 1, Len(xs) - 1)), xs[Len(xs)])

\* mean of a non-empty list of floats
Mean(xs) == FDiv(ListSum(xs), FInt(Len(xs)))

\* median of a non-empty list of floats: the middle of the sorted list, or
\* the mean of the two middle entries.
Median(xs) ==
    LET sorted == SortSeq(xs, FLess)
        n == Len(xs)
    IN  IF n % 2 = 1 THEN sorted[(n + 1) \div 2]
        ELSE FDiv(FAdd(sorted[n \div 2], sorted[n \div 2 + 1]), FInt(2))

\* calculate_quantitative_metrics: the dict it returns, <<>> for {}.  One
\* value that float() rejects makes the list comprehension raise, and the
\* except branch returns {}.
calculate_quantitative_metrics(values) ==
    LET attempted == SelectSeq(values, NotBlank)
        numeric_values == [i \in DOMAIN attempted |-> float(attempted[i])]
    IN  IF values = <<>> THEN <<>>
        ELSE IF \E i \in DOMAIN attempted : FloatRaises(attempted[i]) THEN <<>>
        ELSE IF numeric_values = <<>> THEN <<>>
        ELSE <<[k |-> "range", v |-> FSub(SeriesMax(numeric_values),
                                         SeriesMin(numeric_values))],
               [k |-> "mean", v |-> Mean(numeric_values)],
               [k |-> "median", v |-> Median(numeric_values)],
               [k |-> "max", v |-> SeriesMax(numeric_values)],
               [k |-> "min", v |-> SeriesMin(numeric_values)]>>

\* GeoJSONProcessor._analyze_fields: the type of a field is read off the
\* value of the first feature.
FieldTypeOf(value) ==
    IF value = None THEN "unknown"
    ELSE IF value.t = "num" THEN "quantitative"
    ELSE "qualitative"

\* GeoJSONProcessor._calculate_statistics for one field: [type, count,
\* has_data, stats].  In the quantitative branch a value float() rejects is
\* passed over; the other branch counts the values that are not None.
calculate_statistics(field_type, values) ==
    LET parsed == SelectSeq(values, LAMBDA v : ~FloatRaises(v))
        numeric_values == [i \in DOMAIN parsed |-> float(parsed[i])]
        non_null_values == SelectSeq(values, LAMBDA v : v # None)
    IN  IF values = <<>>
        THEN [type |-> field_type, count |-> 0, has_data |-> FALSE, stats |-> <<>>]
        ELSE IF field_type = "quantitative"
        THEN IF numeric_values # <<>>
             THEN [type |-> "quantitative", count |-> Len(numeric_values),
                   has_data |-> TRUE,
                   stats |-> <<[k |-> "min", v |-> SeriesMin(numeric_values)],
                               [k |-> "max", v |-> SeriesMax(numeric_values)],
                               [k |-> "mean", v |-> Mean(numeric_values)],
                               [k |-> "median", v |-> Median(numeric_values)]>>]
             ELSE [type |-> "quantitative", count |-> 0, has_data |-> FALSE,
                   stats |-> <<>>]
        ELSE IF non_null_values # <<>>
        THEN [type |-> "qualitative", count |-> Len(non_null_values),
              has_data |-> TRUE, stats |-> <<>>]
        ELSE [type |-> "qualitative", count |-> 0, has_data |-> FALSE,
              stats |-> <<>>]

(***************************************************************************)
(* State.  The entity group holds one entity object and the last calls     *)
(* made on it; the specifications below use one group each and leave the   *)
(* others idle.                                                            *)
(***************************************************************************)
VARIABLES
    ent,    \* the entity object (a Dataset, Category or Mode, or a grade summary)
    pre,    \* the object as it was before the last call
    hist,   \* the calls made so far, oldest first: [op, id]
    res,    \* what the last call returned: [exc, val]
    fs,     \* the storage directory of the managers
    before, \* the storage directory before the last manager call
    last,   \* the last manager call: [op, id, arg, exc, val]
    calls,  \* the manager calls in progress, per caller: [pc, id, arg, data]
    frame,  \* the frame handed to the generated scorer
    config, \* the scorer's configuration
    scored  \* [done, weighted_score]: the column the scorer wrote

entVars == <<ent, pre, hist, res>>

storeVars == <<fs, before, last, calls>>

scoreVars == <<frame, config, scored>>

vars == <<entVars, storeVars, scoreVars>>

Idle == <<>>

EntityIdle == ent = Idle /\ pre = Idle /\ hist = Idle /\ res = Idle

StoreIdle == fs = Idle /\ before = Idle /\ last = Idle /\ calls = Idle

ScoreIdle == frame = Idle /\ config = Idle /\ scored = Idle

Returned(v) == [exc |-> "", val |-> v]

Raised(e, v) == [exc |-> e, val |-> v]

Call(op, id) == [op |-> op, id |-> id]

(***************************************************************************)
(* Inputs of the entity specification.                                     *)
(***************************************************************************)
NumIds == 3

IdNames == <<"a", "b", "c", "d", "e">>

MemberIds == {IdNames[i] : i \in 1..NumIds}

\* Weights around the tolerance band: sums 0.98, 0.99, 1.0, 1.01, 1.02, ...
BandWeights == {FLit(49, -2), FLit(5, -1), FLit(52, -2)}

\* Raw weights a user may type before asking for normalisation.
RawWeights == {Zero, FLit(49, -2), One, FLit(-5, -1)}

AddedWeights == {Zero, FLit(5, -1)}

Names == {"", " ", "n"}

\* The lists over the first n ids, in id order, without repetition.
RECURSIVE ListsOver(_)
ListsOver(n) ==
    IF n = 0 THEN {<<>>}
    ELSE ListsOver(n - 1) \cup {Append(l, IdNames[n]) : l \in ListsOver(n - 1)}

\* The dicts over the first n ids, keys in id order, values from W.
RECURSIVE DictsOver(_, _)
DictsOver(n, W) ==
    IF n = 0 THEN {<<>>}
    ELSE DictsOver(n - 1, W)
         \cup {Append(d, [k |-> IdNames[n], v |-> w]) : d \in DictsOver(n - 1, W), w \in W}

MemberLists == ListsOver(NumIds)

KeysOf(d) == [i \in DOMAIN d |-> d[i].k]

CategoryInputs ==
    {[kind |-> "category", name |-> n, datasets |-> l, dataset_weights |-> d] :
        n \in Names, l \in MemberLists, d \in DictsOver(NumIds, BandWeights)}
    \cup
    {[kind |-> "category", name |-> "n", datasets |-> KeysOf(d), dataset_weights |-> d] :
        d \in DictsOver(NumIds, RawWeights)}

ModeInputs ==
    {[kind |-> "mode", name |-> n, use_case |-> u, categories |-> l, category_weights |-> d] :
        n \in Names, u \in {"", "military"}, l \in MemberLists,
        d \in DictsOver(NumIds, BandWeights)}
    \cup
    {[kind |-> "mode", name |-> "n", use_case |-> "military",
      categories |-> KeysOf(d), category_weights |-> d] :
        d \in DictsOver(NumIds, RawWeights)}

DatasetInputs ==
    {[kind |-> "dataset", name |-> n, selected_fields |-> l, field_weights |-> d] :
        n \in Names, l \in MemberLists, d \in DictsOver(NumIds, BandWeights)}

GradeInputs ==
    {[kind |-> "grades", summaryOfGrades |-> d] : d \in DictsOver(NumIds, BandWeights)}

InitEntity ==
    /\ ent \in CategoryInputs \cup ModeInputs \cup DatasetInputs \cup GradeInputs
    /\ pre = ent
    /\ hist = <<>>
    /\ res = Returned(<<>>)
    /\ StoreIdle
    /\ ScoreIdle

\* One call on the object: the object after it, the call, what it returned.
Step(after, call, result) ==
    /\ ent' = after
    /\ pre' = ent
    /\ hist' = Append(hist, call)
    /\ res' = result
    /\ UNCHANGED <<storeVars, scoreVars>>

DatasetValidate ==
    /\ ent.kind = "dataset" /\ hist = <<>>
    /\ Step(ent, Call("validate", NoId),
            IF SumRaises(ent.field_weights) THEN Raised("TypeError", <<>>)
            ELSE Returned(Dataset_validate(ent)))

CategoryValidate ==
    /\ ent.kind = "category" /\ hist = <<>>
    /\ Step(ent, Call("validate", NoId),
            IF SumRaises(ent.dataset_weights) THEN Raised("TypeError", <<>>)
            ELSE Returned(Category_validate(ent)))

CategoryAddDataset ==
    /\ ent.kind = "category" /\ hist = <<>>
    /\ \E id \in MemberIds, w \in AddedWeights :
          Step(Category_add_dataset(ent, id, w), Call("add", id), Returned(<<>>))

CategoryRemoveDataset ==
    /\ ent.kind = "category" /\ hist = <<>>
    /\ \E id \in MemberIds :
          Step(Category_remove_dataset(ent, id), Call("remove", id), Returned(<<>>))

\* normalize_weights(), once or a second time right after the first.
CategoryNormalizeWeights ==
    /\ ent.kind = "category"
    /\ hist \in {<<>>, <<Call("normalize", NoId)>>}
    /\ Step(Category_normalize_weights(ent), Call("normalize", NoId), Returned(<<>>))

ModeValidate ==
    /\ ent.kind = "mode" /\ hist = <<>>
    /\ Step(ent, Call("validate", NoId),
            IF SumRaises(ent.category_weights) THEN Raised("TypeError", <<>>)
            ELSE Returned(Mode_validate(ent)))

ModeAddCategory ==
    /\ ent.kind = "mode" /\ hist = <<>>
    /\ \E id \in MemberIds, w \in AddedWeights :
          Step(Mode_add_category(ent, id, w), Call("add", id), Returned(<<>>))

ModeRemoveCategory ==
    /\ ent.kind = "mode" /\ hist = <<>>
    /\ \E id \in MemberIds :
          Step(Mode_remove_category(ent, id), Call("remove", id), Returned(<<>>))

ModeNormalizeWeights ==
    /\ ent.kind = "mode"
    /\ hist \in {<<>>, <<Call("normalize", NoId)>>}
    /\ Step(Mode_normalize_weights(ent), Call("normalize", NoId), Returned(<<>>))

\* POST /editor/create_json: the grade summary goes to create_dataset_json.
CreateDatasetJson ==
    /\ ent.kind = "grades" /\ hist = <<>>
    /\ Step(ent, Call("create_dataset_json", NoId), create_dataset_json(ent.summaryOfGrades))

NextEntity ==
    \/ CreateDatasetJson
    \/ DatasetValidate
    \/ CategoryValidate
    \/ CategoryAddDataset
    \/ CategoryRemoveDataset
    \/ CategoryNormalizeWeights
    \/ ModeValidate
    \/ ModeAddCategory
    \/ ModeRemoveCategory
    \/ ModeNormalizeWeights

SpecEntity == InitEntity /\ [][NextEntity]_vars

(***************************************************************************)
(* The member specification: a Category or a Mode constructed with no      *)
(* member and no weight, then up to MaxCalls calls of add, remove and      *)
(* normalize_weights on it.                                                *)
(***************************************************************************)
MaxCalls == 4

EmptyEntities ==
    {[kind |-> "category", name |-> "n", datasets |-> <<>>, dataset_weights |-> <<>>],
     [kind |-> "mode", name |-> "n", use_case |-> "military",
      categories |-> <<>>, category_weights |-> <<>>]}

InitMembers ==
    /\ ent \in EmptyEntities
    /\ pre = ent
    /\ hist = <<>>
    /\ res = Returned(<<>>)
    /\ StoreIdle
    /\ ScoreIdle

\* Category.add_dataset / Mode.add_category
AddMember ==
    /\ Len(hist) < MaxCalls
    /\ \E id \in MemberIds, w \in AddedWeights :
          Step(IF ent.kind = "category" THEN Category_add_dataset(ent, id, w)
               ELSE Mode_add_category(ent, id, w),
               Call("add", id), Returned(<<>>))

\* Category.remove_dataset / Mode.remove_category
RemoveMember ==
    /\ Len(hist) < MaxCalls
    /\ \E id \in MemberIds :
          Step(IF ent.kind = "category" THEN Category_remove_dataset(ent, id)
               ELSE Mode_remove_category(ent, id),
               Call("remove", id), Returned(<<>>))

\* Category.normalize_weights / Mode.normalize_weights
NormalizeMembers ==
    /\ Len(hist) < MaxCalls
    /\ Step(IF ent.kind = "category" THEN Category_normalize_weights(ent)
            ELSE Mode_normalize_weights(ent),
            Call("normalize", NoId), Returned(<<>>))

NextMembers == AddMember \/ RemoveMember \/ NormalizeMembers

SpecMembers == InitMembers /\ [][NextMembers]_vars

(***************************************************************************)
(* The same calls on entities whose weight map came with null weights: a   *)
(* JSON null is read as None and the dataclasses store it as it is.        *)
(***************************************************************************)
NullableWeights == {None, FLit(5, -1), One}

NullWeightInputs ==
    {[kind |-> "dataset", name |-> "n", selected_fields |-> KeysOf(d), field_weights |-> d] :
        d \in DictsOver(NumIds, NullableWeights)}
    \cup
    {[kind |-> "category", name |-> "n", datasets |-> KeysOf(d), dataset_weights |-> d] :
        d \in DictsOver(NumIds, NullableWeights)}
    \cup
    {[kind |-> "mode", name |-> "n", use_case |-> "military",
      categories |-> KeysOf(d), category_weights |-> d] :
        d \in DictsOver(NumIds, NullableWeights)}
    \cup
    {[kind |-> "grades", summaryOfGrades |-> d] : d \in DictsOver(NumIds, NullableWeights)}

InitNullWeights ==
    /\ ent \in NullWeightInputs
    /\ pre = ent
    /\ hist = <<>>
    /\ res = Returned(<<>>)
    /\ StoreIdle
    /\ ScoreIdle

\* normalize_grades called on the grade summary.
NormalizeGrades ==
    /\ ent.kind = "grades" /\ hist = <<>>
    /\ Step(ent, Call("normalize_grades", NoId),
            Returned(normalize_grades(ent.summaryOfGrades)))

NextNullWeights ==
    \/ NormalizeGrades
    \/ CreateDatasetJson
    \/ DatasetValidate
    \/ CategoryValidate
    \/ ModeValidate

SpecNullWeights == InitNullWeights /\ [][NextNullWeights]_vars

(***************************************************************************)
(* The manager specification: any sequence of manager calls on one storage *)
(* directory, starting with no file.                                       *)
(***************************************************************************)
StoreDatasetIds == {"d1", "d2"}

StoreCategoryIds == {"c1", "c2"}

StoreModeIds == {"m1"}

\* Every listed member gets the weight w.
Uniform(l, w) == [i \in DOMAIN l |-> [k |-> l[i], v |-> w]]

ArgWeights == {One, FLit(5, -1)}

DatasetArgs ==
    {[kind |-> "dataset", name |-> "n", selected_fields |-> <<"f">>,
      field_weights |-> Uniform(<<"f">>, w)] : w \in ArgWeights}

CategoryArgs ==
    {[kind |-> "category", name |-> "n", datasets |-> l, dataset_weights |-> Uniform(l, w)] :
        l \in {<<"d1">>, <<"d1", "d2">>}, w \in ArgWeights}

ModeArgs ==
    {[kind |-> "mode", name |-> "n", use_case |-> "military",
      categories |-> l, category_weights |-> Uniform(l, w)] :
        l \in {<<"c1">>, <<"c1", "c2">>}, w \in ArgWeights}

\* Result ids have the form "<mode id>_<seconds>".
StoreResultIds == {"m1_1", "m1_2"}

ResultArgs ==
    {[kind |-> "result", mode_id |-> "m1", final_scores |-> l] :
        l \in {<<>>, <<One>>}}

NoFile == [k \in {} |-> Idle]

InitStore ==
    /\ fs = [datasets |-> NoFile, categories |-> NoFile, modes |-> NoFile,
             results |-> NoFile]
    /\ before = fs
    /\ last = [op |-> "none", id |-> NoId, arg |-> Idle, exc |-> "", val |-> Idle]
    /\ calls = Idle
    /\ EntityIdle
    /\ ScoreIdle

\* One manager call: its name and arguments, and what it did.
Do(op, id, arg, out) ==
    /\ fs' = out.fs
    /\ before' = fs
    /\ last' = [op |-> op, id |-> id, arg |-> arg, exc |-> out.exc, val |-> out.val]
    /\ UNCHANGED <<calls, entVars, scoreVars>>

CreateDataset ==
    \E id \in StoreDatasetIds, d \in DatasetArgs :
        Do("create_dataset", id, d, DatasetManager_create_dataset(fs, id, d))

UpdateDataset ==
    \E id \in StoreDatasetIds, d \in DatasetArgs :
        Do("update_dataset", id, d, DatasetManager_update_dataset(fs, id, d))

DeleteDataset ==
    \E id \in StoreDatasetIds :
        Do("delete_dataset", id, Idle, DatasetManager_delete_dataset(fs, id))

CreateCategory ==
    \E id \in StoreCategoryIds, c \in CategoryArgs :
        Do("create_category", id, c, CategoryManager_create_category(fs, id, c))

UpdateCategory ==
    \E id \in StoreCategoryIds, c \in CategoryArgs :
        Do("update_category", id, c, CategoryManager_update_category(fs, id, c))

DeleteCategory ==
    \E id \in StoreCategoryIds :
        Do("delete_category", id, Idle, CategoryManager_delete_category(fs, id))

CreateMode ==
    \E id \in StoreModeIds, m \in ModeArgs :
        Do("create_mode", id, m, ModeManager_create_mode(fs, id, m))

UpdateMode ==
    \E id \in StoreModeIds, m \in ModeArgs :
        Do("update_mode", id, m, ModeManager_update_mode(fs, id, m))

DeleteMode ==
    \E id \in StoreModeIds :
        Do("delete_mode", id, Idle, ModeManager_delete_mode(fs, id))

SaveResult ==
    \E r \in ResultArgs :
        Do("save_result", NoId, r, ProcessingResultManager_save_result(fs, r))

DeleteResult ==
    \E id \in StoreResultIds :
        Do("delete_result", id, Idle, ProcessingResultManager_delete_result(fs, id))

ValidateHierarchy ==
    Do("validate_hierarchy", NoId, Idle,
       Outcome(fs, "", HierarchyManager_validate_hierarchy(fs)))

NextStore ==
    \/ CreateDataset
    \/ UpdateDataset
    \/ DeleteDataset
    \/ CreateCategory
    \/ UpdateCategory
    \/ DeleteCategory
    \/ CreateMode
    \/ UpdateMode
    \/ DeleteMode
    \/ SaveResult
    \/ DeleteResult
    \/ ValidateHierarchy

SpecStore == InitStore /\ [][NextStore]_vars

(***************************************************************************)
(* Loading what was stored: create_dataset stores any Dataset it is given, *)
(* and get_dataset / list_datasets read the file back.                     *)
(***************************************************************************)
LoadedFields == {<<"f">>, <<"f", "g">>}

PersistedDatasets ==
    {[kind |-> "dataset", name |-> "n", selected_fields |-> l,
      field_weights |-> Uniform(k, FDiv(One, FInt(Len(k))))] :
        l \in LoadedFields, k \in LoadedFields}

StoreDataset ==
    \E id \in StoreDatasetIds, d \in PersistedDatasets :
        Do("create_dataset", id, d, DatasetManager_create_dataset(fs, id, d))

GetDataset ==
    \E id \in StoreDatasetIds :
        Do("get_dataset", id, Idle, DatasetManager_get_dataset(fs, id))

ListDatasets ==
    Do("list_datasets", NoId, Idle, DatasetManager_list_datasets(fs, <<"d1", "d2">>))

NextLoad == StoreDataset \/ GetDataset \/ ListDatasets

SpecLoad == InitStore /\ [][NextLoad]_vars

(***************************************************************************)
(* The registry specification: any sequence of add_api, update_api and     *)
(* delete_api calls on the registry file that _ensure_registry_exists      *)
(* wrote.  `fs` is the content of the file.                                *)
(***************************************************************************)
\* Two of the entries the default registry is created with.
DefaultApis ==
    [id \in {"dry-docks", "usace-reservoirs"} |->
        [id |-> id,
         name |-> IF id = "dry-docks" THEN "Dry Docks" ELSE "USACE Reservoirs",
         url |-> "https://", api_type |-> "built_in", updated_at |-> ""]]

\* The ids uuid4 hands out; one is taken only while the registry lacks it.
Uuids == {"uuid-1"}

ApiIds == {"dry-docks", "my-api"} \cup Uuids

ApiDataInputs ==
    UNION {[K -> {"my-api", "dry-docks", "New name", "built_in"}] :
              K \in SUBSET {"id", "name", "api_type"}}

\* The dicts a caller passes: an id is an id, a type is a type, a name a name.
ApiData ==
    {d \in ApiDataInputs :
        /\ "id" \in DOMAIN d => d["id"] \in {"my-api", "dry-docks"}
        /\ "name" \in DOMAIN d => d["name"] = "New name"
        /\ "api_type" \in DOMAIN d => d["api_type"] = "built_in"}

InitRegistry ==
    /\ fs = [apis |-> DefaultApis]
    /\ before = fs
    /\ last = [op |-> "none", id |-> NoId, arg |-> Idle, exc |-> "", val |-> Idle]
    /\ calls = Idle
    /\ EntityIdle
    /\ ScoreIdle

AddApi ==
    \E d \in ApiData, uuid \in Uuids :
        /\ ("id" \in DOMAIN d) \/ uuid \notin DOMAIN fs.apis
        /\ Do("add_api", NoId, d, APIRegistry_add_api(fs, d, uuid))

UpdateApi ==
    \E id \in ApiIds, d \in ApiData :
        Do("update_api", id, d, APIRegistry_update_api(fs, id, d))

DeleteApi ==
    \E id \in ApiIds :
        Do("delete_api", id, Idle, APIRegistry_delete_api(fs, id))

NextRegistry == AddApi \/ UpdateApi \/ DeleteApi

SpecRegistry == InitRegistry /\ [][NextRegistry]_vars

(***************************************************************************)
(* Two callers of create_dataset on one storage file.  A call is two       *)
(* steps, "data = self._load_data()" and, after the assignment to the      *)
(* loaded dict, "self._save_data(data)"; the managers take no lock, so the *)
(* steps of two calls come in any order.  Each caller holds its own loaded *)
(* dict between its two steps.                                             *)
(***************************************************************************)
Callers == {1, 2}

RaceDatasetIds == {"d1", "d2", "d3"}

InitRace ==
    /\ fs = [datasets |-> NoFile, categories |-> NoFile, modes |-> NoFile,
             results |-> NoFile]
    /\ before = fs
    /\ last = [op |-> "none", id |-> NoId, arg |-> Idle, exc |-> "", val |-> Idle]
    /\ \E ids \in [Callers -> RaceDatasetIds], args \in [Callers -> DatasetArgs] :
          /\ ids[1] # ids[2]
          /\ calls = [c \in Callers |->
                         [pc |-> "called", id |-> ids[c], arg |-> args[c], data |-> NoFile]]
    /\ EntityIdle
    /\ ScoreIdle

\* data = self._load_data(); data['datasets'] is what the file holds now.
LoadData(c) ==
    /\ calls[c].pc = "called"
    /\ calls' = [calls EXCEPT ![c].pc = "loaded", ![c].data = fs.datasets]
    /\ UNCHANGED <<fs, before, last, entVars, scoreVars>>

\* data['datasets'][dataset.id] = dataset.to_dict(); self._save_data(data);
\* return dataset.id: the file becomes the caller's dict.
SaveData(c) ==
    /\ calls[c].pc = "loaded"
    /\ fs' = [fs EXCEPT !.datasets = Put(calls[c].data, calls[c].id, calls[c].arg)]
    /\ before' = fs
    /\ last' = [op |-> "create_dataset", id |-> calls[c].id, arg |-> calls[c].arg,
                exc |-> "", val |-> calls[c].id]
    /\ calls' = [calls EXCEPT ![c].pc = "returned"]
    /\ UNCHANGED <<entVars, scoreVars>>

NextRace == \E c \in Callers : LoadData(c) \/ SaveData(c)

SpecRace == InitRace /\ [][NextRace]_vars

(***************************************************************************)
(* The scorer specification: one frame, one configuration, one run of      *)
(* process().  The frame has a numeric column risk and a text column type; *)
(* the configuration may also weigh a field size the frame does not have.  *)
(***************************************************************************)
NumRows == 3

RiskCells == <<Num(FInt(0)), Num(FInt(5)), Num(FInt(10)), None>>

TypeCells == <<Str("X"), Str("Y"), None>>

\* The rows a frame may hold, numbered.
RowInputs ==
    [k \in 1..(Len(RiskCells) * Len(TypeCells)) |->
        [risk |-> RiskCells[((k - 1) \div Len(TypeCells)) + 1],
         type |-> TypeCells[((k - 1) % Len(TypeCells)) + 1]]]

\* The scorer works column by column and treats all rows alike, so the
\* frames are drawn with their rows in the order of RowInputs: the sequences
\* of n row numbers, the last at most top, that never decrease.
RECURSIVE RowNumbers(_, _)
RowNumbers(n, top) ==
    IF n = 0 THEN {<<>>}
    ELSE UNION {{Append(ks, k) : ks \in RowNumbers(n - 1, k)} : k \in 1..top}

FrameInputs ==
    {[columns |-> {"risk", "type"}, rows |-> [i \in DOMAIN ks |-> RowInputs[ks[i]]]] :
        ks \in UNION {RowNumbers(n, Len(RowInputs)) : n \in 1..NumRows}}

Entry(k, v) == [k |-> k, v |-> v]

FieldWeightInputs ==
    {<<Entry("risk", FLit(6, -1)), Entry("type", FLit(4, -1))>>,
     <<Entry("type", FLit(3, -1)), Entry("size", FLit(5, -1)), Entry("risk", FLit(7, -1))>>}

FieldAttributeInputs ==
    {<<Entry("type", <<Entry("X", FInt(50))>>)>>,
     <<Entry("type", <<Entry("X", FInt(50)), Entry("Y", FInt(100))>>)>>,
     <<>>}

ConfigInputs ==
    {[selected_fields  |-> sel,
      field_weights    |-> fw,
      field_types      |-> <<Entry("risk", "quantitative"), Entry("type", "qualitative")>>,
      field_attributes |-> fa] :
        sel \in {<<"risk", "type">>, <<"risk">>},
        fw \in FieldWeightInputs,
        fa \in FieldAttributeInputs}

InitScore ==
    /\ frame \in FrameInputs
    /\ config \in ConfigInputs
    /\ scored = [done |-> FALSE, weighted_score |-> <<>>, field_score |-> <<>>]
    /\ EntityIdle
    /\ StoreIdle

Process ==
    /\ ~scored.done
    /\ scored' = [done |-> TRUE,
                  weighted_score |-> process(frame, config),
                  field_score    |-> AttributeScores(frame, config)]
    /\ UNCHANGED <<frame, config, entVars, storeVars>>

NextScore == Process

SpecScore == InitScore /\ [][NextScore]_vars

(***************************************************************************)
(* The rollup specification: one run of the category scorer or of the      *)
(* feature layer scorer.  `frame` holds the dataset files (of a category)  *)
(* or the categories with their dataset files (of a feature layer), every  *)
(* file with the same three features; `scored` holds the output rows.      *)
(***************************************************************************)
RollupFrames ==
    {[columns |-> {"risk", "type"},
      rows |-> <<[risk |-> Num(FInt(0)), type |-> Str("X")],
                 [risk |-> Num(FInt(10)), type |-> Str("X")],
                 [risk |-> Num(v), type |-> Str("X")]>>] :
        v \in {FInt(0), FInt(5), FInt(9), FInt(10)}}

\* The dicts over the keys of a list, each key present or not, values from W.
RECURSIVE WeightDicts(_, _)
WeightDicts(keys, W) ==
    IF keys = <<>> THEN {<<>>}
    ELSE LET rest == WeightDicts(SubSeq(keys, 1, Len(keys) - 1), W)
         IN  rest \cup {Append(d, Entry(keys[Len(keys)], w)) : d \in rest, w \in W}

DatasetFileInputs ==
    {<<Entry("A", f)>> : f \in RollupFrames}
    \cup {<<Entry("A", f), Entry("B", g)>> : f, g \in RollupFrames}

RollupConfigs ==
    {[selected_fields  |-> <<"risk", "type">>,
      field_weights    |-> <<Entry("risk", w)>>,
      field_types      |-> <<Entry("risk", "quantitative"), Entry("type", "qualitative")>>,
      field_attributes |-> <<>>] : w \in {One, FInt(100)}}

CategoryRunInputs ==
    {[frame  |-> [kind |-> "category", dataset_files |-> files],
      config |-> [selected_fields  |-> cfg.selected_fields,
                  field_weights    |-> cfg.field_weights,
                  field_types      |-> cfg.field_types,
                  field_attributes |-> cfg.field_attributes,
                  dataset_weights  |-> dw]] :
        files \in DatasetFileInputs, cfg \in RollupConfigs,
        dw \in WeightDicts(<<"A", "B">>, {FLit(7, -1), FLit(3, -1), FInt(70), FInt(30)})}

CategoryConfigInputs ==
    {<<Entry("c1", [datasets |-> <<Entry("A", f)>>, weights |-> <<Entry("A", w)>>])>> :
        f \in RollupFrames, w \in {One, FInt(100)}}
    \cup
    {<<Entry("c1", [datasets |-> <<Entry("A", f)>>, weights |-> <<Entry("A", w)>>]),
       Entry("c2", [datasets |-> <<Entry("B", g)>>, weights |-> <<Entry("B", w)>>])>> :
        f, g \in RollupFrames, w \in {One, FInt(100)}}

FeatureLayerRunInputs ==
    {[frame  |-> [kind |-> "mode", categories |-> cats],
      config |-> [selected_fields  |-> cfg.selected_fields,
                  field_weights    |-> cfg.field_weights,
                  field_types      |-> cfg.field_types,
                  field_attributes |-> cfg.field_attributes,
                  category_weights |-> cw]] :
        cats \in CategoryConfigInputs, cfg \in RollupConfigs,
        cw \in {<<>>,
                <<Entry("c1", FLit(7, -1)), Entry("c2", FLit(3, -1))>>,
                <<Entry("c1", FInt(70)), Entry("c2", FInt(30))>>}}

InitRollup ==
    /\ \E run \in CategoryRunInputs \cup FeatureLayerRunInputs :
          frame = run.frame /\ config = run.config
    /\ scored = [done |-> FALSE, rows |-> <<>>]
    /\ EntityIdle
    /\ StoreIdle

CategoryProcess ==
    /\ ~scored.done
    /\ frame.kind = "category"
    /\ scored' = [done |-> TRUE,
                  rows |-> CategoryProcessor_process(frame.dataset_files, config)]
    /\ UNCHANGED <<frame, config, entVars, storeVars>>

FeatureLayerProcess ==
    /\ ~scored.done
    /\ frame.kind = "mode"
    /\ scored' = [done |-> TRUE,
                  rows |-> FeatureLayerProcessor_process(frame.categories, config)]
    /\ UNCHANGED <<frame, config, entVars, storeVars>>

NextRollup == CategoryProcess \/ FeatureLayerProcess

SpecRollup == InitRollup /\ [][NextRollup]_vars

(***************************************************************************)
(* The field analysis specifications.  `frame` is the list of one field's  *)
(* values and `scored` what the function called on it returned.            *)
(* SpecClassify calls predict_field_type with the default threshold 0.2.   *)
(* SpecSummary calls the two summaries on lists whose values float()       *)
(* either rejects or turns into a finite number.                           *)
(***************************************************************************)
MaxValues == 5

ValueLists(cells) == UNION {[1..n -> cells] : n \in 0..MaxValues}

ClassifyCells ==
    {Str("1"), Str("1.0"), Num(FInt(2)), Str("x"), Str("nan"), Str(""), None}

InitClassify ==
    /\ frame \in ValueLists(ClassifyCells)
    /\ config = [threshold_unique |-> FLit(2, -1)]
    /\ scored = [done |-> FALSE, op |-> "", val |-> <<>>]
    /\ EntityIdle
    /\ StoreIdle

Predict ==
    /\ ~scored.done
    /\ scored' = [done |-> TRUE, op |-> "predict_field_type",
                  val |-> predict_field_type(frame, config.threshold_unique)]
    /\ UNCHANGED <<frame, config, entVars, storeVars>>

NextClassify == Predict

SpecClassify == InitClassify /\ [][NextClassify]_vars

SummaryCells == {Str("1"), Str("3"), Num(FInt(2)), Str("x"), Str(""), None}

InitSummary ==
    /\ frame \in ValueLists(SummaryCells)
    /\ config = Idle
    /\ scored = [done |-> FALSE, op |-> "", val |-> <<>>]
    /\ EntityIdle
    /\ StoreIdle

Metrics ==
    /\ ~scored.done
    /\ scored' = [done |-> TRUE, op |-> "calculate_quantitative_metrics",
                  val |-> calculate_quantitative_metrics(frame)]
    /\ UNCHANGED <<frame, config, entVars, storeVars>>

\* _analyze_fields collects the values only when there are features, so the
\* list has a first value to read the field's type from.
Statistics ==
    /\ ~scored.done
    /\ frame # <<>>
    /\ scored' = [done |-> TRUE, op |-> "_calculate_statistics",
                  val |-> calculate_statistics(FieldTypeOf(frame[1]), frame)]
    /\ UNCHANGED <<frame, config, entVars, storeVars>>

NextSummary == Metrics \/ Statistics

SpecSummary == InitSummary /\ [][NextSummary]_vars

(***************************************************************************)
(* Properties of the managers.                                             *)
(***************************************************************************)
Elems(l) == {l[i] : i \in DOMAIN l}

StoredEntities(f) ==
    {f.datasets[d] : d \in DOMAIN f.datasets}
    \cup {f.categories[c] : c \in DOMAIN f.categories}
    \cup {f.modes[m] : m \in DOMAIN f.modes}

StoredWeights(e) ==
    IF e.kind = "category" THEN e.dataset_weights
    ELSE IF e.kind = "mode" THEN e.category_weights
    ELSE e.field_weights

\* |x - 1| <= 1/100, decided on the integers.
SumWithinTolerance(x) ==
    IF x.e >= 0
    THEN 100 * AbsInt(x.m * Pow10(x.e) - 1) <= 1
    ELSE 100 * AbsInt(x.m - Pow10(-x.e)) <= Pow10(-x.e)

CreateOrUpdate ==
    {"create_dataset", "update_dataset", "create_category", "update_category",
     "create_mode", "update_mode"}

\* C1: every entity held in a store has a weight map that sums to 1.0 within 0.01;
\* a create or update of an entity that fails the check raises an error and leaves
\* the storage as it was.
C1_StoredWeightsSumToOne ==
    /\ \A e \in StoredEntities(fs) : SumWithinTolerance(SumValues(StoredWeights(e)))
    /\ (last.op \in CreateOrUpdate
          /\ ~SumWithinTolerance(SumValues(StoredWeights(last.arg))))
       => (last.exc = "ValueError" /\ fs = before)

\* C2: create_category and update_category given a category that lists a dataset id
\* absent from the dataset store raise a validation error that names exactly the
\* absent ids, all of them, and leave the storage unchanged; create_mode and
\* update_mode do the same for category ids.
C2_InvalidReferencesRejected ==
    /\ (last.op \in {"create_category", "update_category"}
          /\ ~(Elems(last.arg.datasets) \subseteq DOMAIN before.datasets))
       => /\ last.exc = "ValueError"
          /\ Elems(last.val) = Elems(last.arg.datasets) \ DOMAIN before.datasets
          /\ fs = before
    /\ (last.op \in {"create_mode", "update_mode"}
          /\ ~(Elems(last.arg.categories) \subseteq DOMAIN before.categories))
       => /\ last.exc = "ValueError"
          /\ Elems(last.val) = Elems(last.arg.categories) \ DOMAIN before.categories
          /\ fs = before

C2_Witness ==
    /\ last.op = "create_category"
    /\ last.arg.datasets = <<"d1", "d2">>
    /\ DOMAIN before.datasets = {"d1"}
    /\ last.exc = "ValueError"
    /\ last.val = <<"d2">>
    /\ DOMAIN fs.categories = {"c1"}
    /\ last.id = "c2"

\* The ids named by the errors validate() returns.
IdsNamed(errors) == {errors[i].id : i \in DOMAIN errors} \ {NoId}

\* C3: after delete_dataset removed a dataset that a stored category still lists,
\* validation of that category (Category.validate, or validate_hierarchy over the
\* stores) reports the deleted id.
C3_DanglingReferenceReported ==
    (last.op = "delete_dataset" /\ last.val = TRUE)
    => \A c \in DOMAIN fs.categories :
          InList(last.id, fs.categories[c].datasets)
          => LET issues == HierarchyManager_validate_hierarchy(fs)
             IN  \/ last.id \in IdsNamed(Category_validate(fs.categories[c]))
                 \/ last.id \in issues.orphaned_datasets
                 \/ \E x \in issues.categories : x.id = c /\ x.error.id = last.id

\* C4: delete_dataset changes only the dataset store, where it removes the one id:
\* every stored category and mode is as before, also one that lists the deleted
\* id; delete_category likewise leaves the datasets and the modes as they were.
C4_DeleteDoesNotCascade ==
    /\ last.op = "delete_dataset"
       => /\ fs.categories = before.categories
          /\ fs.modes = before.modes
          /\ DOMAIN fs.datasets = DOMAIN before.datasets \ {last.id}
          /\ \A d \in DOMAIN fs.datasets : fs.datasets[d] = before.datasets[d]
    /\ last.op = "delete_category"
       => /\ fs.modes = before.modes
          /\ fs.datasets = before.datasets
          /\ DOMAIN fs.categories = DOMAIN before.categories \ {last.id}
          /\ \A c \in DOMAIN fs.categories : fs.categories[c] = before.categories[c]

C4_Witness ==
    /\ last.op = "delete_dataset"
    /\ last.val = TRUE
    /\ last.id = "d2"
    /\ "c1" \in DOMAIN fs.categories
    /\ fs.categories["c1"].datasets = <<"d1", "d2">>
    /\ "m1" \in DOMAIN fs.modes
    /\ DOMAIN fs.datasets = {"d1"}

(***************************************************************************)
(* dynamic_weighting (pipeline/weighting.py).  `frame` is the GeoDataFrame *)
(* read from the input file, `config` the configuration, `scored` the      *)
(* outcome: the exception raised, if any, and the Weight column.           *)
(***************************************************************************)
\* The names bound in the module when dynamic_weighting runs: its imports
\* and its own function.
ModuleNames == {"pd", "gpd", "time", "tqdm", "dynamic_weighting"}

\* round(x, 4)
Round4(x) ==
    IF x.e >= -4 THEN x
    ELSE Canon(RoundHalfEven(x.m, Pow10(-4 - x.e)), -4)

\* ensure_valid_weight; weight is None or a number.
ensure_valid_weight(weight) ==
    IF weight = None \/ FLess(weight.n, Zero) THEN Zero
    ELSE Round4(weight.n)

\* str(row.get(field, '')).strip()
RowValue(row, field) == IF field \in DOMAIN row THEN Strip(row[field]) ELSE ""

\* weights.get(value, 0.0)
WeightOfValue(weights, value) ==
    IF DictHas(weights, value) THEN DictGet(weights, value) ELSE Num(Zero)

\* The loop of compute_row_weight over the first n fields.
RECURSIVE TotalWeight(_, _, _)
TotalWeight(row, weighting_fields, n) ==
    IF n = 0 THEN Zero
    ELSE LET field_config == weighting_fields[n].v
             value == RowValue(row, weighting_fields[n].k)
             field_weight ==
                 FMul(ensure_valid_weight(WeightOfValue(field_config.weights, value)),
                      field_config.importance)
         IN  FAdd(TotalWeight(row, weighting_fields, n - 1), field_weight)

compute_row_weight(row, weighting_fields) ==
    ensure_valid_weight(Num(TotalWeight(row, weighting_fields, Len(weighting_fields))))

\* The call: the configuration check, the read of the file, the size of the
\* file through the name os, then the weight of every row.
dynamic_weighting(gdf, cfg) ==
    IF cfg.weighting_fields = <<>>
    THEN [done |-> TRUE, exc |-> "ValueError", Weight |-> <<>>]
    ELSE IF "os" \notin ModuleNames
    THEN [done |-> TRUE, exc |-> "NameError", Weight |-> <<>>]
    ELSE [done |-> TRUE, exc |-> "",
          Weight |-> [i \in DOMAIN gdf.rows |->
                         compute_row_weight(gdf.rows[i], cfg.weighting_fields)]]

(***************************************************************************)
(* The weighting specification: one call of dynamic_weighting.             *)
(***************************************************************************)
ValueWeights == {None, Num(FLit(-5, -1)), Num(FLit(3, -1))}

Importances == {FInt(-1), FLit(5, -1), FInt(2)}

FieldConfigs ==
    {[weights |-> w, importance |-> imp] :
        w \in WeightDicts(<<"x", "y">>, ValueWeights), imp \in Importances}

WeightingConfigs ==
    {[weighting_fields |-> <<>>]}
    \cup {[weighting_fields |-> <<Entry("f", fc)>>] : fc \in FieldConfigs}
    \cup {[weighting_fields |-> <<Entry("f", fc),
                                  Entry("g", [weights |-> <<Entry("x", Num(One))>>,
                                              importance |-> imp])>>] :
             fc \in FieldConfigs, imp \in {FInt(-1), One}}

WeightingRows == <<[f |-> "x", g |-> "x"], [f |-> "z", g |-> "x"]>>

WeightingFrames ==
    {[rows |-> [i \in DOMAIN ks |-> WeightingRows[ks[i]]]] :
        ks \in UNION {RowNumbers(n, Len(WeightingRows)) : n \in 1..NumRows}}

InitWeighting ==
    /\ frame \in WeightingFrames
    /\ config \in WeightingConfigs
    /\ scored = [done |-> FALSE, exc |-> "", Weight |-> <<>>]
    /\ EntityIdle
    /\ StoreIdle

DynamicWeighting ==
    /\ ~scored.done
    /\ scored' = dynamic_weighting(frame, config)
    /\ UNCHANGED <<frame, config, entVars, storeVars>>

NextWeighting == DynamicWeighting

SpecWeighting == InitWeighting /\ [][NextWeighting]_vars

(***************************************************************************)
(* Properties of the entity operations.                                    *)
(***************************************************************************)
Members(e) ==
    IF e.kind = "category" THEN e.datasets
    ELSE IF e.kind = "mode" THEN e.categories
    ELSE e.selected_fields

Weights(e) ==
    IF e.kind = "category" THEN e.dataset_weights
    ELSE IF e.kind = "mode" THEN e.category_weights
    ELSE IF e.kind = "dataset" THEN e.field_weights
    ELSE e.summaryOfGrades

Blank(s) == s \in {"", " "}

RuleErrors(E, rule) == SelectSeq(E, LAMBDA x : x.rule = rule)

JustCalled(op) == Len(hist) = 1 /\ hist[1].op = op

\* C5: every weight-sum check (the three validate() methods, and normalize_grades
\* as create_dataset_json uses it) accepts a weight map exactly when its sum is
\* within 0.01 of 1.0, and the error of a rejected map states the sum.
C5_EveryCheckUsesTolerance ==
    /\ JustCalled("validate") =>
          LET total == SumValues(Weights(pre))
              said  == RuleErrors(res.val, "weight_sum")
          IN  /\ (said = <<>>) <=> SumWithinTolerance(total)
              /\ \A i \in DOMAIN said : said[i].sum = Fmt3(total)
    /\ JustCalled("create_dataset_json") =>
          LET total == SumValues(Weights(pre))
          IN  /\ (res.exc = "") <=> SumWithinTolerance(total)
              /\ res.exc # "" =>
                    \E i \in DOMAIN res.val :
                        res.val[i].rule = "weight_sum" /\ res.val[i].sum = Fmt3(total)

\* C6: normalize_weights on a weight map with non-zero sum S replaces every weight
\* w by w / S and the map then sums to exactly 1.0; with S = 0 the map is unchanged.
C6_NormalizeDividesBySum ==
    JustCalled("normalize") =>
       LET S == SumValues(Weights(pre))
       IN  IF S # Zero
           THEN /\ Len(Weights(ent)) = Len(Weights(pre))
                /\ \A i \in DOMAIN Weights(pre) :
                      Weights(ent)[i] = [k |-> Weights(pre)[i].k,
                                         v |-> FDiv(Weights(pre)[i].v, S)]
                /\ SumValues(Weights(ent)) = One
           ELSE Weights(ent) = Weights(pre)

\* C7: normalize_weights is idempotent: a second call right after the first leaves
\* the weight map as the first call left it.
C7_NormalizeIdempotent ==
    (/\ Len(hist) = 2
     /\ hist[1].op = "normalize" /\ hist[2].op = "normalize"
     /\ SumValues(Weights(pre)) # Zero)
    => Weights(ent) = Weights(pre)

\* The exact sum of a weight map, in units of 10^-K (every exponent is >= -K).
RECURSIVE ExactSum(_, _)
ExactSum(d, K) ==
    IF d = <<>> THEN 0
    ELSE ExactSum(SubSeq(d, 1, Len(d) - 1), K) + d[Len(d)].v.m * Pow10(d[Len(d)].v.e + K)

Without(l, x) == SelectSeq(l, LAMBDA y : y # x)

\* C8: remove_dataset(id) / remove_category(id) takes id out of the member list and
\* out of the weight map and leaves every other member and every other weight as
\* it was: nothing is rescaled, so the sum of the weights drops by the removed one.
C8_RemoveKeepsOtherWeights ==
    JustCalled("remove") =>
       LET id == hist[1].id
           W  == Weights(pre)
       IN  /\ Members(ent) = Without(Members(pre), id)
           /\ Weights(ent) = SelectSeq(W, LAMBDA p : p.k # id)
           /\ \A k \in DictKeys(W) \ {id} :
                 DictHas(Weights(ent), k) /\ DictGet(Weights(ent), k) = DictGet(W, k)
           /\ ~DictHas(Weights(ent), id)
           /\ ent.name = pre.name
           /\ ExactSum(Weights(ent), 2)
                 = ExactSum(W, 2)
                   - (IF DictHas(W, id)
                      THEN DictGet(W, id).m * Pow10(DictGet(W, id).e + 2) ELSE 0)

C8_Witness ==
    /\ JustCalled("remove")
    /\ pre.kind = "category"
    /\ InList(hist[1].id, pre.datasets)
    /\ DictHas(pre.dataset_weights, hist[1].id)
    /\ DictGet(pre.dataset_weights, hist[1].id) = FLit(49, -2)
    /\ Len(ent.dataset_weights) = 2
    /\ SumValues(pre.dataset_weights) = FLit(149, -2)

\* C9 as stated: with the four rules "empty name, empty membership, a member
\* without weight entry, weight sum outside tolerance", validate() returns the
\* empty list exactly when none of them is violated.
C9_EmptyIffFourRulesHold ==
    JustCalled("validate") =>
       ((res.val = <<>>)
          <=> (/\ ~Blank(pre.name)
               /\ Members(pre) # <<>>
               /\ \A i \in DOMAIN Members(pre) : Members(pre)[i] \in DictKeys(Weights(pre))
               /\ SumWithinTolerance(SumValues(Weights(pre)))))

\* C9, amended: validate() returns exactly one error per violated rule, the rules
\* being: empty name, empty membership, each listed member without weight entry,
\* weight sum outside tolerance, and for a Mode also an empty use_case.  The list
\* is empty exactly when no rule is violated, and the object is not changed.
C9_ValidateReportsEveryRule ==
    JustCalled("validate") =>
       LET E     == res.val
           M     == Members(pre)
           total == SumValues(Weights(pre))
       IN  /\ Len(RuleErrors(E, "name")) = (IF Blank(pre.name) THEN 1 ELSE 0)
           /\ Len(RuleErrors(E, "empty")) = (IF M = <<>> THEN 1 ELSE 0)
           /\ \A x \in MemberIds :
                 Cardinality({i \in DOMAIN E : E[i].rule = "missing_weight" /\ E[i].id = x})
                   = Cardinality({i \in DOMAIN M :
                                     M[i] = x /\ x \notin DictKeys(Weights(pre))})
           /\ Len(RuleErrors(E, "weight_sum")) = (IF SumWithinTolerance(total) THEN 0 ELSE 1)
           /\ Len(RuleErrors(E, "use_case"))
                 = (IF pre.kind = "mode" /\ Blank(pre.use_case) THEN 1 ELSE 0)
           /\ \A i \in DOMAIN E :
                 E[i].rule \in {"name", "empty", "missing_weight", "weight_sum", "use_case"}
           /\ res.exc = ""
           /\ ent = pre

C9_Witness ==
    /\ JustCalled("validate")
    /\ pre.kind = "mode"
    /\ Len(RuleErrors(res.val, "name")) = 1
    /\ Len(RuleErrors(res.val, "use_case")) = 1
    /\ Len(RuleErrors(res.val, "missing_weight")) = 2
    /\ Len(RuleErrors(res.val, "weight_sum")) = 1

(***************************************************************************)
(* Scorer claims.                                                          *)
(***************************************************************************)
\* The configured fields: the weighted fields that are selected columns.
Configured(f) == DictHas(config.field_weights, f) /\ f \in KeptColumns(frame, config)

TypeOf(f) == IF DictHas(config.field_types, f) THEN DictGet(config.field_types, f) ELSE "unknown"

\* The numbers observed in a column of the frame.
Observed(f) == {frame.rows[j][f].n : j \in {h \in DOMAIN frame.rows : frame.rows[h][f].t = "num"}}

ObservedMin(f) == CHOOSE x \in Observed(f) : \A y \in Observed(f) : FLeq(x, y)

ObservedMax(f) == CHOOSE x \in Observed(f) : \A y \in Observed(f) : FLeq(y, x)

AttributeKeys(f) == DictKeys(DictGet(config.field_attributes, f))

\* Feature i has a value for field f and the claim's formula is defined on it.
ContributionDefined(i, f) ==
    LET cell == frame.rows[i][f]
    IN  \/ /\ TypeOf(f) = "quantitative"
           /\ cell.t = "num"
           /\ FLess(ObservedMin(f), ObservedMax(f))
        \/ /\ TypeOf(f) = "qualitative"
           /\ cell.t = "str"
           /\ DictHas(config.field_attributes, f)
           /\ cell.s \in AttributeKeys(f)

\* (v - min)/(max - min), or attributeWeight(v)/100.
Contribution(i, f) ==
    LET cell == frame.rows[i][f]
    IN  IF TypeOf(f) = "quantitative"
        THEN FDiv(FSub(cell.n, ObservedMin(f)), FSub(ObservedMax(f), ObservedMin(f)))
        ELSE FDiv(DictGet(DictGet(config.field_attributes, f), cell.s), FInt(100))

\* The sum of contribution x weight over the first n weighted fields.
RECURSIVE FormulaScore(_, _)
FormulaScore(i, n) ==
    IF n = 0 THEN Zero
    ELSE LET f == config.field_weights[n].k
         IN  IF Configured(f)
             THEN FAdd(FormulaScore(i, n - 1),
                       FMul(Contribution(i, f), config.field_weights[n].v))
             ELSE FormulaScore(i, n - 1)

FormulaApplies(i) ==
    \A n \in DOMAIN config.field_weights :
        Configured(config.field_weights[n].k) => ContributionDefined(i, config.field_weights[n].k)

\* The end-to-end example: risk=5 on [0,10] weighted 0.6, type=X weighted 0.4, X -> 50.
ExampleFeature(i) ==
    /\ frame.rows[i] = [risk |-> Num(FInt(5)), type |-> Str("X")]
    /\ Observed("risk") = {FInt(0), FInt(5), FInt(10)}
    /\ config.selected_fields = <<"risk", "type">>
    /\ config.field_weights = <<Entry("risk", FLit(6, -1)), Entry("type", FLit(4, -1))>>
    /\ config.field_attributes = <<Entry("type", <<Entry("X", FInt(50))>>)>>

\* C10: after process(), the score of every feature that has a value for
\* each configured field is the sum over the configured fields of
\* contribution x field weight, the contribution being (v - min)/(max - min)
\* over the column's observed range for a quantitative field and
\* attributeWeight(v)/100 for a qualitative one; the example feature scores 0.5.
C10_DatasetScoreFormula ==
    scored.done =>
        \A i \in DOMAIN frame.rows :
            /\ FormulaApplies(i) =>
                   scored.weighted_score[i] = FormulaScore(i, Len(config.field_weights))
            /\ ExampleFeature(i) => scored.weighted_score[i] = FLit(5, -1)

C10_Witness ==
    /\ scored.done
    /\ \E i \in DOMAIN frame.rows :
          /\ ExampleFeature(i)
          /\ FormulaApplies(i)
          /\ scored.weighted_score[i] = FLit(5, -1)

\* The chunk of the frame from row a to row b.
Chunk(a, b) == [columns |-> frame.columns, rows |-> SubSeq(frame.rows, a, b)]

\* C12: the score of a feature depends only on its own values and on the
\* configuration: scored as part of any chunk of the frame (rows a..b, the
\* feature among them) under the same configuration, it gets the score it
\* got in the whole frame.
C12_ScoreIndependentOfCollection ==
    scored.done =>
        \A i \in DOMAIN frame.rows :
            \A a \in 1..i, b \in i..Len(frame.rows) :
                process(Chunk(a, b), config)[i - a + 1] = scored.weighted_score[i]

\* The configuration with the n-th weighted field alone.
OnlyField(n) == [config EXCEPT !.field_weights = <<config.field_weights[n]>>]

\* The sum of the contributions of the first n weighted fields to feature i,
\* a field the feature has no value for counting 0.
RECURSIVE SumOfPresent(_, _)
SumOfPresent(i, n) ==
    IF n = 0 THEN Zero
    ELSE LET f == config.field_weights[n].k
         IN  IF f \in frame.columns /\ frame.rows[i][f].t # "none"
             THEN FAdd(SumOfPresent(i, n - 1), process(frame, OnlyField(n))[i])
             ELSE SumOfPresent(i, n - 1)

\* C13: a feature without a value for a selected field gets 0 for that field
\* and the contributions of the other fields are still summed: its score is
\* defined (not NaN) and is the sum of the contributions of the fields it has
\* a value for.
C13_MissingValueContributesZero ==
    scored.done =>
        \A i \in DOMAIN frame.rows :
            /\ scored.weighted_score[i] # NaN
            /\ scored.weighted_score[i] = SumOfPresent(i, Len(config.field_weights))

\* C14: for a qualitative field, process() gives a feature whose value has an
\* entry in the field's attributeWeights the contribution weight/100 and a
\* feature whose value has no entry the contribution 0, and returns normally.
C14_AttributeContribution ==
    scored.done =>
        \A j \in DOMAIN scored.field_score :
            LET f       == scored.field_score[j].k
                weights == DictGet(config.field_attributes, f)
            IN  \A i \in DOMAIN frame.rows :
                    frame.rows[i][f].t = "str" =>
                        scored.field_score[j].v[i]
                          = (IF DictHas(weights, frame.rows[i][f].s)
                             THEN FDiv(DictGet(weights, frame.rows[i][f].s), FInt(100))
                             ELSE Zero)

C14_Witness ==
    /\ scored.done
    /\ \E j \in DOMAIN scored.field_score :
          /\ scored.field_score[j].k = "type"
          /\ DictGet(config.field_attributes, "type") = <<Entry("X", FInt(50))>>
          /\ \E i \in DOMAIN frame.rows :
                frame.rows[i].type = Str("X") /\ scored.field_score[j].v[i] = FLit(5, -1)
          /\ \E i \in DOMAIN frame.rows :
                frame.rows[i].type = Str("Y") /\ scored.field_score[j].v[i] = Zero

\* What the qualitative field type adds to feature i: the field_score of the
\* run times the field weight, nothing when the run computed no field_score.
TypeTerm(i) ==
    IF DictHas(scored.field_score, "type") /\ DictHas(config.field_weights, "type")
    THEN FMul(DictGet(scored.field_score, "type")[i], DictGet(config.field_weights, "type"))
    ELSE Zero

\* The quantitative column risk is weighted and selected, and constant.
ConstantRisk == Configured("risk") /\ Cardinality(Observed("risk")) = 1

\* C15: when the observed minimum of a quantitative field equals its maximum,
\* the field contributes 0 to every feature: every score is a number (nothing
\* is divided by zero, nothing is undefined) and is what the other field adds.
C15_ConstantColumnContributesZero ==
    (scored.done /\ ConstantRisk) =>
        \A i \in DOMAIN frame.rows :
            /\ scored.weighted_score[i] # NaN
            /\ scored.weighted_score[i] = TypeTerm(i)

C15_Witness ==
    /\ scored.done
    /\ ConstantRisk
    /\ Len(frame.rows) = 3
    /\ \E i \in DOMAIN frame.rows : frame.rows[i].risk = None
    /\ \E i \in DOMAIN frame.rows : scored.weighted_score[i] = FLit(2, -1)
    /\ \E i \in DOMAIN frame.rows : scored.weighted_score[i] = Zero

(***************************************************************************)
(* Rollup claims.                                                          *)
(***************************************************************************)
\* The configuration the dataset scorer gets for one of the datasets.
DatasetConfig ==
    [selected_fields  |-> config.selected_fields,
     field_weights    |-> config.field_weights,
     field_types      |-> config.field_types,
     field_attributes |-> config.field_attributes]

\* The weights are the fractions validate() asks for: one per member, sum 1.0.
Fractions(members, weights) ==
    /\ \A i \in DOMAIN members : DictHas(weights, members[i].k)
    /\ DictKeys(weights) = {members[i].k : i \in DOMAIN members}
    /\ SumWithinTolerance(SumValues(weights))

\* The sum over the datasets, in order, of dataset score x dataset weight.
RECURSIVE DatasetRollup(_, _, _, _)
DatasetRollup(files, weights, i, n) ==
    IF n = 0 THEN Zero
    ELSE FAdd(DatasetRollup(files, weights, i, n - 1),
              FMul(process(files[n].v, DatasetConfig)[i], DictGet(weights, files[n].k)))

\* The sum over the categories, in order, of category score x category weight.
RECURSIVE CategoryRollup(_, _, _)
CategoryRollup(cats, i, n) ==
    IF n = 0 THEN Zero
    ELSE FAdd(CategoryRollup(cats, i, n - 1),
              FMul(DatasetRollup(cats[n].v.datasets, cats[n].v.weights, i,
                                 Len(cats[n].v.datasets)),
                   DictGet(config.category_weights, cats[n].k)))

\* What the run reports for feature i: the sum of the final scores of its rows.
RECURSIVE ReportedScore(_, _)
ReportedScore(i, n) ==
    IF n = 0 THEN Zero
    ELSE IF scored.rows[n].feature = i
    THEN FAdd(ReportedScore(i, n - 1), scored.rows[n].final_score)
    ELSE ReportedScore(i, n - 1)

RollupFeatures == 1..3

\* C11: with field, dataset and category weights given as the 0-1 fractions
\* that validate() requires, the category score of a feature is the sum over
\* the category's datasets of dataset score x dataset weight, and the final
\* score of a mode is the sum over its categories of category score x
\* category weight (dataset scores 0.5 and 0.9 weighted 0.7/0.3 give 0.62).
C11_RollupIsWeightedSum ==
    scored.done =>
        /\ (/\ frame.kind = "category"
            /\ SumWithinTolerance(SumValues(config.field_weights))
            /\ Fractions(frame.dataset_files, config.dataset_weights))
           => \A i \in RollupFeatures :
                 ReportedScore(i, Len(scored.rows))
                   = DatasetRollup(frame.dataset_files, config.dataset_weights, i,
                                   Len(frame.dataset_files))
        /\ (/\ frame.kind = "mode"
            /\ SumWithinTolerance(SumValues(config.field_weights))
            /\ Fractions(frame.categories, config.category_weights)
            /\ \A c \in DOMAIN frame.categories :
                  Fractions(frame.categories[c].v.datasets, frame.categories[c].v.weights))
           => \A i \in RollupFeatures :
                 ReportedScore(i, Len(scored.rows))
                   = CategoryRollup(frame.categories, i, Len(frame.categories))

(***************************************************************************)
(* Properties of the field analysis.                                       *)
(***************************************************************************)
\* The values of the field that are neither None nor "".
Attempted == SelectSeq(frame, NotBlank)

SomeUnparseable == \E i \in DOMAIN Attempted : FloatRaises(Attempted[i])

\* The distinct numeric values of a field all of whose values parse.
DistinctNumeric == {float(Attempted[i]) : i \in DOMAIN Attempted}

\* C16: predict_field_type answers qualitative when some value that is
\* neither None nor "" cannot be parsed as a number; otherwise it answers
\* quantitative exactly when the number of distinct numeric values divided
\* by the number of values is above 0.2 (a ratio of exactly 0.2 is
\* qualitative); the empty list is qualitative with unique count 0.
C16_ClassifiedByDistinctRatio ==
    (scored.done /\ scored.op = "predict_field_type") =>
        /\ SomeUnparseable => scored.val.type = "qualitative"
        /\ ~SomeUnparseable =>
               (scored.val.type = "quantitative"
                    <=> 5 * Cardinality(DistinctNumeric) > Len(frame))
        /\ frame = <<>> =>
               (scored.val.type = "qualitative" /\ scored.val.unique = 0)

\* The numbers among the field's values: what float() makes of the values
\* it accepts.
Parseable == SelectSeq(frame, LAMBDA v : ~FloatRaises(v))

ParseableNumbers == [i \in DOMAIN Parseable |-> float(Parseable[i])]

\* The statistics the summary returned.
ReportedStats ==
    IF scored.op = "_calculate_statistics" THEN scored.val.stats ELSE scored.val

\* The field was summarized as a quantitative field.
SummarizedAsNumbers ==
    /\ scored.done
    /\ scored.op = "_calculate_statistics" => FieldTypeOf(frame[1]) = "quantitative"

\* C17: when some of a field's values cannot be parsed and others can, the
\* summary skips the unparseable ones and returns the statistics of the
\* parseable ones: min, max and mean are those of the numbers among the
\* values, and the result is not empty.
C17_SummarySkipsUnparseable ==
    (SummarizedAsNumbers /\ SomeUnparseable /\ Parseable # <<>>) =>
        /\ {"min", "max", "mean"} \subseteq DictKeys(ReportedStats)
        /\ DictGet(ReportedStats, "min") = SeriesMin(ParseableNumbers)
        /\ DictGet(ReportedStats, "max") = SeriesMax(ParseableNumbers)
        /\ DictGet(ReportedStats, "mean") = Mean(ParseableNumbers)

(***************************************************************************)
(* Properties of the weight checks on null weights and unselected fields.  *)
(***************************************************************************)
\* The sum of a weight map with every null weight counted as 0.
NullAsZeroSum(weights) == SumValues(NoneAsZero(weights))

\* C18: a weight-sum check over a map in which some weight is null counts
\* that weight as 0 and returns its verdict instead of failing, at every
\* level: validate() of a Dataset, a Category and a Mode reports the
\* weight-sum error exactly when the sum so counted is off 1.0 by more than
\* 0.01, and normalize_grades answers whether it is within 1e-6 of 1.0.
C18_NullWeightCountsAsZero ==
    /\ (JustCalled("validate") /\ SumRaises(Weights(pre))) =>
          /\ res.exc = ""
          /\ (RuleErrors(res.val, "weight_sum") # <<>>)
                 <=> WeightSumOff(NullAsZeroSum(Weights(pre)))
    /\ (JustCalled("normalize_grades") /\ SumRaises(Weights(pre))) =>
          /\ res.exc = ""
          /\ res.val = FLess(FAbs(FSub(NullAsZeroSum(Weights(pre)), One)), GradeTolerance)

\* The entries of a weight map whose key is one of the listed members.
WeightsOf(members, weights) == SelectSeq(weights, LAMBDA p : InList(p.k, members))

\* C19: Dataset.validate reports the weight-sum error exactly when the
\* weights of the selected fields sum to a value off 1.0 by more than 0.01;
\* a weight stored for a field that is not selected does not count.
C19_SelectedFieldWeightsSummed ==
    (JustCalled("validate") /\ pre.kind = "dataset") =>
        ((RuleErrors(res.val, "weight_sum") # <<>>)
            <=> WeightSumOff(SumValues(WeightsOf(pre.selected_fields, pre.field_weights))))

(***************************************************************************)
(* Properties of loading stored datasets.                                  *)
(***************************************************************************)
\* A stored dataset that lists a selected field without a weight.
MissingFieldWeight(d) ==
    \E i \in DOMAIN d.selected_fields : ~DictHas(d.field_weights, d.selected_fields[i])

\* C20: loading a stored Dataset one of whose selected fields has no entry in
\* field_weights is rejected with an error: get_dataset of such a dataset,
\* and list_datasets of a file holding one, raise instead of returning it.
C20_MalformedDatasetRejectedAtLoad ==
    /\ (/\ last.op = "get_dataset"
        /\ last.id \in DOMAIN before.datasets
        /\ MissingFieldWeight(before.datasets[last.id])) => last.exc # ""
    /\ (/\ last.op = "list_datasets"
        /\ \E id \in DOMAIN before.datasets : MissingFieldWeight(before.datasets[id]))
           => last.exc # ""

(***************************************************************************)
(* Properties of update, delete and save in the managers.                  *)
(***************************************************************************)
\* The file of the storage directory a manager call works on.
FileOf(op) ==
    IF op \in {"create_dataset", "update_dataset", "delete_dataset"} THEN "datasets"
    ELSE IF op \in {"create_category", "update_category", "delete_category"}
    THEN "categories"
    ELSE IF op \in {"create_mode", "update_mode", "delete_mode"} THEN "modes"
    ELSE "results"

UpdateOrDelete ==
    {"update_dataset", "update_category", "update_mode",
     "delete_dataset", "delete_category", "delete_mode", "delete_result"}

\* The last call was an update or a delete of an id the store did not hold.
AbsentIdCall == last.op \in UpdateOrDelete /\ last.id \notin DOMAIN before[FileOf(last.op)]

\* The ids the entity passed to the last update lists without their being stored.
UnresolvedReferences ==
    IF last.op = "update_category" THEN Elems(last.arg.datasets) \ DOMAIN before.datasets
    ELSE IF last.op = "update_mode" THEN Elems(last.arg.categories) \ DOMAIN before.categories
    ELSE {}

\* C21 as stated: an update or delete of an id that is not in the store
\* returns False and leaves the store's contents unchanged.
C21_AbsentIdReturnsFalse ==
    AbsentIdCall => (last.exc = "" /\ last.val = FALSE /\ fs = before)

\* C21: an update or delete of an id that is not in the store leaves the
\* store's contents unchanged and fails: it returns False, except that
\* update_category and update_mode check the references first and raise an
\* error naming the unresolved ids when the entity passed has one.
C21_AbsentIdFails ==
    AbsentIdCall =>
        /\ fs = before
        /\ IF UnresolvedReferences # {}
           THEN last.exc = "ValueError" /\ Elems(last.val) = UnresolvedReferences
           ELSE last.exc = "" /\ last.val = FALSE

C21_Witness ==
    /\ AbsentIdCall
    /\ last.op = "update_mode"
    /\ UnresolvedReferences = {}
    /\ last.val = FALSE
    /\ DOMAIN before.categories = {"c1", "c2"}

PresentIdUpdate ==
    /\ last.op \in {"update_dataset", "update_category", "update_mode"}
    /\ last.id \in DOMAIN before[FileOf(last.op)]
    /\ UnresolvedReferences = {}

\* C24: an update of an id the store holds, with an entity whose references
\* all resolve, returns True, and the record then stored under the id (what a
\* following get reads) is the entity that was passed.
C24_UpdateStoresEntity ==
    PresentIdUpdate =>
        /\ last.exc = ""
        /\ last.val = TRUE
        /\ fs[FileOf(last.op)][last.id] = last.arg

\* C30: create_dataset returns the id without an error and stores the
\* dataset under it: over an id the store already holds it replaces the
\* record, so the number of stored datasets stays the same; under a fresh id
\* it adds exactly one record; every other record is left as it was.
C30_CreateReplacesOrAdds ==
    last.op = "create_dataset" =>
        /\ last.exc = "" /\ last.val = last.id
        /\ DOMAIN fs.datasets = DOMAIN before.datasets \cup {last.id}
        /\ fs.datasets[last.id] = last.arg
        /\ \A d \in DOMAIN before.datasets \ {last.id} : fs.datasets[d] = before.datasets[d]
        /\ fs.categories = before.categories
        /\ fs.modes = before.modes
        /\ fs.results = before.results

C30_Witness ==
    /\ last.op = "create_dataset"
    /\ last.id \in DOMAIN before.datasets
    /\ before.datasets[last.id] # last.arg
    /\ fs.datasets[last.id] = last.arg
    /\ Cardinality(DOMAIN fs.datasets) = 2
    /\ Cardinality(DOMAIN before.datasets) = 2

(***************************************************************************)
(* Properties of concurrent creates.                                       *)
(***************************************************************************)
\* C28: when two callers create two datasets with different ids on the same
\* storage file, whatever the order of their load and save steps, both
\* datasets are in the store once both calls have returned.
C28_BothCreatesKept ==
    (\A c \in Callers : calls[c].pc = "returned") =>
        \A c \in Callers :
            /\ calls[c].id \in DOMAIN fs.datasets
            /\ fs.datasets[calls[c].id] = calls[c].arg

(***************************************************************************)
(* Properties of the range of the dataset score.                           *)
(***************************************************************************)
\* The configuration is well-formed: no field weight is negative, the field
\* weights sum to exactly 1.0, every attribute weight is within [0, 100].
WellFormedWeights ==
    /\ \A n \in DOMAIN config.field_weights : FLeq(Zero, config.field_weights[n].v)
    /\ SumValues(config.field_weights) = One
    /\ \A a \in DOMAIN config.field_attributes :
          \A b \in DOMAIN config.field_attributes[a].v :
              /\ FLeq(Zero, config.field_attributes[a].v[b].v)
              /\ FLeq(config.field_attributes[a].v[b].v, FInt(100))

\* C23: with a well-formed configuration every feature's dataset score is a
\* number within [0, 1].
C23_ScoreWithinUnitInterval ==
    (scored.done /\ WellFormedWeights) =>
        \A i \in DOMAIN scored.weighted_score :
            /\ scored.weighted_score[i] # NaN
            /\ FLeq(Zero, scored.weighted_score[i])
            /\ FLeq(scored.weighted_score[i], One)


(***************************************************************************)
(* Properties of the API registry (SpecRegistry).                          *)
(***************************************************************************)
RegistryCall == last.op \in {"update_api", "delete_api"}

\* The entry the last update_api call should have left under its id.
UpdatedEntry ==
    [before.apis[last.id] EXCEPT
        !.name = IF "name" \in DOMAIN last.arg THEN last.arg["name"] ELSE @,
        !.updated_at = "now"]

\* C25: update_api and delete_api on a built-in entry return False and leave
\* the registry unchanged; on an unknown id they return False; on an existing
\* entry that is not built-in they apply the change (update: the given fields
\* replace the stored ones, the others stay; delete: the entry is gone, the
\* other entries stay) and return True.
C25_GuardedUpdateAndDelete ==
    RegistryCall =>
        /\ last.exc = ""
        /\ IF last.id \notin DOMAIN before.apis
           THEN last.val = FALSE /\ fs = before
           ELSE IF before.apis[last.id].api_type = "built_in"
           THEN last.val = FALSE /\ fs = before
           ELSE /\ last.val = TRUE
                /\ IF last.op = "delete_api"
                   THEN /\ DOMAIN fs.apis = DOMAIN before.apis \ {last.id}
                        /\ \A k \in DOMAIN fs.apis : fs.apis[k] = before.apis[k]
                   ELSE /\ DOMAIN fs.apis = DOMAIN before.apis
                        /\ fs.apis[last.id] = UpdatedEntry
                        /\ \A k \in DOMAIN fs.apis \ {last.id} :
                               fs.apis[k] = before.apis[k]

\* A delete of a built-in entry was refused after a delete of a user entry
\* had been possible: the registry holds the built-in entry and the last
\* call, on it, returned False.
C25_Witness ==
    /\ last.op = "delete_api"
    /\ last.id = "dry-docks"
    /\ "dry-docks" \in DOMAIN before.apis
    /\ before.apis["dry-docks"].api_type = "built_in"
    /\ last.val = FALSE
    /\ "my-api" \in DOMAIN fs.apis

\* C26: a built-in entry of the registry stays present with unchanged
\* contents through any sequence of add_api, update_api and delete_api.
C26_BuiltInEntriesKept ==
    \A id \in DOMAIN DefaultApis :
        id \in DOMAIN fs.apis /\ fs.apis[id] = DefaultApis[id]


(***************************************************************************)
(* Properties of the member list and the weight map (SpecMembers).         *)
(***************************************************************************)
NoDuplicate(l) == \A i, j \in DOMAIN l : l[i] = l[j] => i = j

\* C27: from a Category or Mode with no member and no weight, after any
\* sequence of add, remove and normalize_weights calls the member list has
\* no duplicate id and its ids are exactly the keys of the weight map.
C27_MembersMatchWeights ==
    /\ NoDuplicate(Members(ent))
    /\ {Members(ent)[i] : i \in DOMAIN Members(ent)} = DictKeys(Weights(ent))

\* The same id was added twice and another id was added and removed again.
C27_Witness ==
    /\ Len(hist) = MaxCalls
    /\ hist[1] = Call("add", "a")
    /\ hist[2] = Call("add", "a")
    /\ hist[3] = Call("add", "b")
    /\ hist[4] = Call("remove", "b")
    /\ Members(ent) = <<"a">>

(***************************************************************************)
(* Properties of dynamic_weighting (SpecWeighting).                        *)
(***************************************************************************)
\* C29: dynamic_weighting gives every row a Weight >= 0 for any
\* configuration with weighting fields: null and negative per-value weights,
\* values without a weight and a negative total all count as 0.
C29_EveryRowWeighted ==
    (scored.done /\ config.weighting_fields # <<>>) =>
        /\ scored.exc = ""
        /\ DOMAIN scored.Weight = DOMAIN frame.rows
        /\ \A i \in DOMAIN scored.Weight : FLeq(Zero, scored.Weight[i])

====
